---- MODULE Spec2Model ----
(***************************************************************************)
(* Model of the mind-map analysis engine of Ai-Thought-Map:                *)
(*   - MindMapGraph        (src/src/services/graph.ts)                     *)
(*   - ConsistencyChecker  (src/src/app/components/visualizations/         *)
(*                          KanbanView.tsx, lines 229-535)                 *)
(*   - SemanticAnalyzer    (src/src/services/semantic.ts)                  *)
(* Texts are sequences of one-character strings, JavaScript Maps and Sets  *)
(* are insertion-ordered sequences, JavaScript numbers are exact rationals *)
(* extended with NaN and the two infinities.                               *)
(***************************************************************************)
EXTENDS Integers, Sequences, FiniteSets, TLC

VARIABLES mindMap, nodes, edges, adjacencyList, embeddings, calls, call, ret,
          localStorage, activeTab, isAnalyzing, useAI, consistencyReport,
          centralConcepts, clusters, suggestions

\* The state of an InsightsPanel.  consistencyReport holds the report from
\* which consistencyScore, issues and statistics are set together.
panel == <<activeTab, isAnalyzing, useAI, consistencyReport, centralConcepts,
           clusters, suggestions>>

\* The state of the page: the items of localStorage and the panel.
page == <<localStorage, panel>>

vars == <<mindMap, nodes, edges, adjacencyList, embeddings, calls, call, ret,
          page>>

(***************************************************************************)
(* Bounds of the model.                                                    *)
(***************************************************************************)
MaxBranches == 2
MaxSubs == 2

(***************************************************************************)
(* JavaScript numbers.                                                     *)
(***************************************************************************)
Abs(i) == IF i < 0 THEN -i ELSE i

RECURSIVE Gcd(_, _)
Gcd(a, b) == IF b = 0 THEN a ELSE Gcd(b, a % b)

NaN == [k |-> "nan", n |-> 0, d |-> 1]
Infinity == [k |-> "inf", n |-> 0, d |-> 1]
NegInfinity == [k |-> "ninf", n |-> 0, d |-> 1]

Rat(n, d) ==
  LET g == Gcd(Abs(n), Abs(d))
      s == IF d < 0 THEN -1 ELSE 1
  IN [k |-> "fin", n |-> (s * n) \div g, d |-> (s * d) \div g]

Num(i) == [k |-> "fin", n |-> i, d |-> 1]

IsFinite(x) == x.k = "fin"

Sign(x) ==
  IF x.k = "inf" THEN 1
  ELSE IF x.k = "ninf" THEN -1
  ELSE IF x.n > 0 THEN 1 ELSE IF x.n < 0 THEN -1 ELSE 0

NumNeg(x) ==
  IF x.k = "nan" THEN NaN
  ELSE IF x.k = "inf" THEN NegInfinity
  ELSE IF x.k = "ninf" THEN Infinity
  ELSE Rat(-x.n, x.d)

NumAdd(x, y) ==
  IF x.k = "nan" \/ y.k = "nan" THEN NaN
  ELSE IF IsFinite(x) /\ IsFinite(y) THEN Rat(x.n * y.d + y.n * x.d, x.d * y.d)
  ELSE IF IsFinite(x) THEN y
  ELSE IF IsFinite(y) THEN x
  ELSE IF x.k = y.k THEN x ELSE NaN

NumSub(x, y) == NumAdd(x, NumNeg(y))

NumMul(x, y) ==
  IF x.k = "nan" \/ y.k = "nan" THEN NaN
  ELSE IF IsFinite(x) /\ IsFinite(y) THEN Rat(x.n * y.n, x.d * y.d)
  ELSE IF Sign(x) * Sign(y) = 0 THEN NaN
  ELSE IF Sign(x) * Sign(y) > 0 THEN Infinity ELSE NegInfinity

NumDiv(x, y) ==
  IF x.k = "nan" \/ y.k = "nan" THEN NaN
  ELSE IF IsFinite(x) /\ IsFinite(y) THEN
    IF y.n = 0
    THEN (IF x.n = 0 THEN NaN ELSE IF x.n > 0 THEN Infinity ELSE NegInfinity)
    ELSE Rat(x.n * y.d, x.d * y.n)
  ELSE IF IsFinite(x) THEN Num(0)
  ELSE IF IsFinite(y) THEN
    (IF (Sign(x) > 0) = (y.n >= 0) THEN Infinity ELSE NegInfinity)
  ELSE NaN

NumLt(x, y) ==
  IF x.k = "nan" \/ y.k = "nan" THEN FALSE
  ELSE IF IsFinite(x) /\ IsFinite(y) THEN x.n * y.d < y.n * x.d
  ELSE IF x.k = y.k THEN FALSE
  ELSE x.k = "ninf" \/ y.k = "inf"

NumGt(x, y) == NumLt(y, x)

MathMax(x, y) ==
  IF x.k = "nan" \/ y.k = "nan" THEN NaN ELSE IF NumLt(x, y) THEN y ELSE x

MathMin(x, y) ==
  IF x.k = "nan" \/ y.k = "nan" THEN NaN ELSE IF NumLt(y, x) THEN y ELSE x

(***************************************************************************)
(* Insertion-ordered Set<string> and Map<string, V>.                       *)
(***************************************************************************)
Range(s) == {s[i] : i \in 1..Len(s)}

SetAdd(s, x) == IF x \in Range(s) THEN s ELSE Append(s, x)

MapHas(m, key) == \E i \in 1..Len(m) : m[i].key = key

MapIndex(m, key) == CHOOSE i \in 1..Len(m) : m[i].key = key

MapGet(m, key) == m[MapIndex(m, key)].value

MapSet(m, key, value) ==
  IF MapHas(m, key)
  THEN [m EXCEPT ![MapIndex(m, key)] = [key |-> key, value |-> value]]
  ELSE Append(m, [key |-> key, value |-> value])

MapKeys(m) == [i \in 1..Len(m) |-> m[i].key]

MapValues(m) == [i \in 1..Len(m) |-> m[i].value]

(***************************************************************************)
(* MindMapGraph: construction.                                             *)
(***************************************************************************)
Undefined == -1

centralId == "central"

branchId(branchIndex) == "branch-" \o ToString(branchIndex)

\* Variant: the sub-branch id does not depend on the sub-branch index.
subId_branchOnly(branchIndex, subIndex) ==
  "branch-" \o ToString(branchIndex) \o "-sub-" \o ToString(branchIndex)

subId(branchIndex, subIndex) ==
  "branch-" \o ToString(branchIndex) \o "-sub-" \o ToString(subIndex)

GraphNode(id, label, type, branchIndex, subBranchIndex) ==
  [id |-> id, label |-> label, type |-> type,
   branchIndex |-> branchIndex, subBranchIndex |-> subBranchIndex]

EmptyGraph == [nodes |-> <<>>, edges |-> <<>>, adjacencyList |-> <<>>]

\* Variant: the edge is recorded in the adjacency of `from' only (directed).
addEdge_directed(g, from, to, weight) ==
  LET adj1 == IF MapHas(g.adjacencyList, from)
              THEN MapSet(g.adjacencyList, from,
                          SetAdd(MapGet(g.adjacencyList, from), to))
              ELSE g.adjacencyList
  IN [g EXCEPT !.edges = Append(@, [from |-> from, to |-> to, weight |-> weight]),
               !.adjacencyList = adj1]

\* Variant: an undirected edge is pushed once per direction.
addEdge_twice(g, from, to, weight) ==
  LET adj1 == IF MapHas(g.adjacencyList, from)
              THEN MapSet(g.adjacencyList, from,
                          SetAdd(MapGet(g.adjacencyList, from), to))
              ELSE g.adjacencyList
      adj2 == IF MapHas(adj1, to)
              THEN MapSet(adj1, to, SetAdd(MapGet(adj1, to), from))
              ELSE adj1
  IN [g EXCEPT !.edges = @ \o <<[from |-> from, to |-> to, weight |-> weight],
                                [from |-> to, to |-> from, weight |-> weight]>>,
               !.adjacencyList = adj2]

addEdge(g, from, to, weight) ==
  LET adj1 == IF MapHas(g.adjacencyList, from)
              THEN MapSet(g.adjacencyList, from,
                          SetAdd(MapGet(g.adjacencyList, from), to))
              ELSE g.adjacencyList
      adj2 == IF MapHas(adj1, to)
              THEN MapSet(adj1, to, SetAdd(MapGet(adj1, to), from))
              ELSE adj1
  IN [g EXCEPT !.edges = Append(@, [from |-> from, to |-> to, weight |-> weight]),
               !.adjacencyList = adj2]

\* Variant: the sub-branches are joined to the central node.
RECURSIVE buildSubBranches_underCentral(_, _, _, _)
buildSubBranches_underCentral(g, branch, branchIndex, subIndex) ==
  IF subIndex >= Len(branch.subBranches) THEN g
  ELSE
    LET sid == subId(branchIndex, subIndex)
        g1 == [g EXCEPT
                 !.nodes = MapSet(@, sid,
                             GraphNode(sid, branch.subBranches[subIndex + 1],
                                       "subbranch", branchIndex, subIndex)),
                 !.adjacencyList = MapSet(@, sid, <<>>)]
    IN buildSubBranches_underCentral(addEdge(g1, centralId, sid, 1),
                                     branch, branchIndex, subIndex + 1)

RECURSIVE buildSubBranches(_, _, _, _)
buildSubBranches(g, branch, branchIndex, subIndex) ==
  IF subIndex >= Len(branch.subBranches) THEN g
  ELSE
    LET sid == subId(branchIndex, subIndex)
        g1 == [g EXCEPT
                 !.nodes = MapSet(@, sid,
                             GraphNode(sid, branch.subBranches[subIndex + 1],
                                       "subbranch", branchIndex, subIndex)),
                 !.adjacencyList = MapSet(@, sid, <<>>)]
    IN buildSubBranches(addEdge(g1, branchId(branchIndex), sid, 1),
                        branch, branchIndex, subIndex + 1)

RECURSIVE buildBranches(_, _, _)
buildBranches(g, mm, branchIndex) ==
  IF branchIndex >= Len(mm.branches) THEN g
  ELSE
    LET branch == mm.branches[branchIndex + 1]
        bid == branchId(branchIndex)
        g1 == [g EXCEPT
                 !.nodes = MapSet(@, bid,
                             GraphNode(bid, branch.title, "branch",
                                       branchIndex, Undefined)),
                 !.adjacencyList = MapSet(@, bid, <<>>)]
        g2 == addEdge(g1, centralId, bid, 1)
    IN buildBranches(buildSubBranches(g2, branch, branchIndex, 0),
                     mm, branchIndex + 1)

buildGraph(mm) ==
  LET g1 == [EmptyGraph EXCEPT
               !.nodes = MapSet(@, centralId,
                           GraphNode(centralId, mm.centralIdea, "central",
                                     Undefined, Undefined)),
               !.adjacencyList = MapSet(@, centralId, <<>>)]
  IN buildBranches(g1, mm, 0)

(***************************************************************************)
(* MindMapGraph: queries.  A graph g is the record of the three fields of  *)
(* the class.                                                              *)
(***************************************************************************)
Null == [kind |-> "null"]

UndefinedNode == GraphNode("", <<>>, "undefined", Undefined, Undefined)

nodesGet(g, id) ==
  IF MapHas(g.nodes, id) THEN MapGet(g.nodes, id) ELSE UndefinedNode

\* Variant: the distance counts the nodes of the path, not its edges.
Path_countsNodes(g, path) ==
  [kind |-> "path",
   nodes |-> [i \in 1..Len(path) |-> nodesGet(g, path[i])],
   distance |-> Len(path),
   strength |-> NumDiv(Num(1), Num(Len(path)))]

Path(g, path) ==
  [kind |-> "path",
   nodes |-> [i \in 1..Len(path) |-> nodesGet(g, path[i])],
   distance |-> Len(path) - 1,
   strength |-> NumDiv(Num(1), Num(Len(path) - 1))]

neighborsOrEmpty(g, nodeId) ==
  IF MapHas(g.adjacencyList, nodeId) THEN MapGet(g.adjacencyList, nodeId)
  ELSE <<>>

RECURSIVE enqueueNeighbors(_, _, _, _, _)
enqueueNeighbors(neighbors, i, path, queue, visited) ==
  IF i > Len(neighbors) THEN [queue |-> queue, visited |-> visited]
  ELSE IF neighbors[i] \notin visited
  THEN enqueueNeighbors(neighbors, i + 1, path,
         Append(queue, [nodeId |-> neighbors[i],
                        path |-> Append(path, neighbors[i])]),
         visited \cup {neighbors[i]})
  ELSE enqueueNeighbors(neighbors, i + 1, path, queue, visited)

RECURSIVE bfs(_, _, _, _)
bfs(g, endId, queue, visited) ==
  IF Len(queue) = 0 THEN Null
  ELSE
    LET item == Head(queue)
    IN IF item.nodeId = endId THEN Path(g, item.path)
       ELSE
         LET r == enqueueNeighbors(neighborsOrEmpty(g, item.nodeId), 1,
                                   item.path, Tail(queue), visited)
         IN bfs(g, endId, r.queue, r.visited)

\* Variant: the search starts without checking that both ids exist.
findShortestPath_unguarded(g, startId, endId) ==
  bfs(g, endId, <<[nodeId |-> startId, path |-> <<startId>>]>>, {startId})

findShortestPath(g, startId, endId) ==
  IF ~MapHas(g.nodes, startId) \/ ~MapHas(g.nodes, endId) THEN Null
  ELSE bfs(g, endId, <<[nodeId |-> startId, path |-> <<startId>>]>>, {startId})

RECURSIVE dfs(_, _, _, _, _, _, _)
RECURSIVE dfsNeighbors(_, _, _, _, _, _, _, _)
RECURSIVE dfsNeighbors_revisits(_, _, _, _, _, _, _, _)
dfs(g, endId, maxDepth, currentId, path, depth, visited) ==
  IF depth > maxDepth THEN <<>>
  ELSE IF currentId = endId THEN <<Path(g, path)>>
  ELSE dfsNeighbors(g, endId, maxDepth, neighborsOrEmpty(g, currentId), 1,
                    path, depth, visited \cup {currentId})

\* The loop over the neighbours without the test of the visited set.
dfsNeighbors_revisits(g, endId, maxDepth, neighbors, i, path, depth, visited) ==
  IF i > Len(neighbors) THEN <<>>
  ELSE
    dfs(g, endId, maxDepth, neighbors[i], Append(path, neighbors[i]),
        depth + 1, visited)
    \o dfsNeighbors_revisits(g, endId, maxDepth, neighbors, i + 1, path,
                             depth, visited)

dfsNeighbors(g, endId, maxDepth, neighbors, i, path, depth, visited) ==
  IF i > Len(neighbors) THEN <<>>
  ELSE
    (IF neighbors[i] \notin visited
     THEN dfs(g, endId, maxDepth, neighbors[i], Append(path, neighbors[i]),
              depth + 1, visited)
     ELSE <<>>)
    \o dfsNeighbors(g, endId, maxDepth, neighbors, i + 1, path, depth, visited)

\* Array.prototype.sort((a, b) => a.distance - b.distance): stable insertion.
RECURSIVE insertByDistance(_, _)
insertByDistance(sorted, p) ==
  IF Len(sorted) = 0 THEN <<p>>
  ELSE IF sorted[Len(sorted)].distance <= p.distance THEN Append(sorted, p)
  ELSE Append(insertByDistance(SubSeq(sorted, 1, Len(sorted) - 1), p),
              sorted[Len(sorted)])

RECURSIVE sortByDistance(_)
sortByDistance(paths) ==
  IF Len(paths) = 0 THEN <<>>
  ELSE insertByDistance(sortByDistance(SubSeq(paths, 1, Len(paths) - 1)),
                        paths[Len(paths)])

findAllPaths(g, startId, endId, maxDepth) ==
  IF ~MapHas(g.nodes, startId) \/ ~MapHas(g.nodes, endId) THEN <<>>
  ELSE sortByDistance(dfs(g, endId, maxDepth, startId, <<startId>>, 0, {}))

calculateDistance(g, nodeA, nodeB) ==
  LET path == findShortestPath(g, nodeA, nodeB)
  IN IF path # Null THEN Num(path.distance) ELSE Infinity

\* path.nodes.forEach((node, idx) => ...) counting every node of the path,
\* its two ends included.
RECURSIVE countInterior_withEnds(_, _, _)
countInterior_withEnds(pathNodes, idx, pathCounts) ==
  IF idx >= Len(pathNodes) THEN pathCounts
  ELSE LET id == pathNodes[idx + 1].id
           count == IF MapHas(pathCounts, id) THEN MapGet(pathCounts, id)
                    ELSE 0
       IN countInterior_withEnds(pathNodes, idx + 1,
                                 MapSet(pathCounts, id, count + 1))

\* path.nodes.forEach((node, idx) => ...): the nodes of a path other than
\* its two ends are counted in pathCounts.
RECURSIVE countInterior(_, _, _)
countInterior(pathNodes, idx, pathCounts) ==
  IF idx >= Len(pathNodes) THEN pathCounts
  ELSE IF idx > 0 /\ idx < Len(pathNodes) - 1
  THEN LET id == pathNodes[idx + 1].id
           count == IF MapHas(pathCounts, id) THEN MapGet(pathCounts, id)
                    ELSE 0
       IN countInterior(pathNodes, idx + 1, MapSet(pathCounts, id, count + 1))
  ELSE countInterior(pathNodes, idx + 1, pathCounts)

\* shortestPaths.forEach(path => ...)
RECURSIVE countPaths(_, _, _)
countPaths(shortestPaths, k, pathCounts) ==
  IF k > Len(shortestPaths) THEN pathCounts
  ELSE countPaths(shortestPaths, k + 1,
                  countInterior(shortestPaths[k].nodes, 0, pathCounts))

\* The pairs <<i, j>> of the two loops, i < j, in the order the loops take
\* them (indexes from 1).
loopPairs(n) ==
  SelectSeq([k \in 1..(n * n) |-> <<((k - 1) \div n) + 1, ((k - 1) % n) + 1>>],
            LAMBDA pair : pair[1] < pair[2])

\* The shortest of the paths found between two nodes; none when
\* paths.length === 0.
shortestPathsOf(g, nodeA, nodeB) ==
  LET paths == findAllPaths(g, nodeA, nodeB, 8)
      distances == {paths[k].distance : k \in 1..Len(paths)}
  IN IF Len(paths) = 0 THEN <<>>
     ELSE LET shortestLength ==
                CHOOSE d \in distances : \A e \in distances : d <= e
          IN SelectSeq(paths, LAMBDA q : q.distance = shortestLength)

\* pathCounts for one pair of nodes.
pathCountsOf(g, nodeA, nodeB) ==
  countPaths(shortestPathsOf(g, nodeA, nodeB), 1, <<>>)

\* centrality.get(nodeId) + share, for each of the shares in turn.
RECURSIVE sumShares(_, _)
sumShares(shares, k) ==
  IF k = 0 THEN Num(0)
  ELSE NumAdd(sumShares(shares, k - 1), shares[k])

\* centrality.get(nodeId) after the loops: every pair whose pathCounts has
\* nodeId has added count / shortestPaths.length to it, in the order of the
\* loops.
scoreOf(g, ids, pairs, nodeId) ==
  LET counted ==
        SelectSeq(pairs, LAMBDA pair :
          MapHas(pathCountsOf(g, ids[pair[1]], ids[pair[2]]), nodeId))
      shares ==
        [k \in 1..Len(counted) |->
           LET nodeA == ids[counted[k][1]]
               nodeB == ids[counted[k][2]]
           IN NumDiv(Num(MapGet(pathCountsOf(g, nodeA, nodeB), nodeId)),
                     Num(Len(shortestPathsOf(g, nodeA, nodeB))))]
  IN sumShares(shares, Len(shares))

calculateBetweennessCentrality(g) ==
  LET ids == MapKeys(g.nodes)
      pairs == loopPairs(Len(ids))
  IN [i \in 1..Len(ids) |->
        [key |-> ids[i], value |-> scoreOf(g, ids, pairs, ids[i])]]

\* Variant: only the edges leaving a node are counted.
calculateDegreeCentrality_outOnly(g) ==
  [i \in 1..Len(g.adjacencyList) |->
     [key |-> g.adjacencyList[i].key,
      value |-> Cardinality({e \in 1..Len(g.edges) :
                               g.edges[e].from = g.adjacencyList[i].key})]]

calculateDegreeCentrality(g) ==
  [i \in 1..Len(g.adjacencyList) |->
     [key |-> g.adjacencyList[i].key,
      value |-> Len(g.adjacencyList[i].value)]]

getAllNodes(g) == MapValues(g.nodes)

getNode(g, id) == nodesGet(g, id)

getNeighbors(g, nodeId) ==
  IF ~MapHas(g.adjacencyList, nodeId) THEN <<>>
  ELSE
    LET neighbors == MapGet(g.adjacencyList, nodeId)
        mapped == [i \in 1..Len(neighbors) |-> nodesGet(g, neighbors[i])]
    IN SelectSeq(mapped, LAMBDA node : node # UndefinedNode)

(***************************************************************************)
(* MindMapGraph: label propagation.  labels is the Map of findClusters.    *)
(***************************************************************************)
\* Variant: the loop gives up after two rounds.
maxIterations_two == 1 + 1

maxIterations == 100

\* nodes.forEach((node, idx) => labels.set(node, idx))
initialLabels_fromOne(g) ==
  [i \in 1..Len(g.nodes) |-> [key |-> g.nodes[i].key, value |-> i]]

initialLabels(g) ==
  [i \in 1..Len(g.nodes) |-> [key |-> g.nodes[i].key, value |-> i - 1]]

\* labelCounts: the Map of the labels of the neighbours to the number of
\* neighbours that carry them, its keys in the order in which the loop over
\* the neighbours first meets them.
countLabels(labels, neighbors) ==
  LET labelAt == [i \in 1..Len(neighbors) |-> MapGet(labels, neighbors[i])]
      firsts == SelectSeq([i \in 1..Len(neighbors) |-> i], LAMBDA i :
                  \A h \in 1..(i - 1) : labelAt[h] # labelAt[i])
  IN [k \in 1..Len(firsts) |->
        [key |-> labelAt[firsts[k]],
         value |-> Cardinality({i \in 1..Len(neighbors) :
                                  labelAt[i] = labelAt[firsts[k]]})]]

\* labelCounts.forEach: the first label of the greatest count.
RECURSIVE mostCommon(_, _, _, _)
mostCommon(labelCounts, i, maxCount, mostCommonLabel) ==
  IF i > Len(labelCounts) THEN mostCommonLabel
  ELSE IF labelCounts[i].value > maxCount
  THEN mostCommon(labelCounts, i + 1, labelCounts[i].value,
                  labelCounts[i].key)
  ELSE mostCommon(labelCounts, i + 1, maxCount, mostCommonLabel)

\* The body of the loop over the shuffled nodes without `changed = true'.
visit_silent(g, labels, changed, node) ==
  LET neighbors == neighborsOrEmpty(g, node)
      label == mostCommon(countLabels(labels, neighbors), 1, 0,
                          MapGet(labels, node))
  IN IF Len(neighbors) = 0 THEN [labels |-> labels, changed |-> changed]
     ELSE [labels |-> MapSet(labels, node, label), changed |-> changed]

\* The body of the loop over the shuffled nodes: the labels and the flag
\* after the visit of a node.
visit(g, labels, changed, node) ==
  LET neighbors == neighborsOrEmpty(g, node)
      label == mostCommon(countLabels(labels, neighbors), 1, 0,
                          MapGet(labels, node))
  IN IF Len(neighbors) = 0 THEN [labels |-> labels, changed |-> changed]
     ELSE IF MapGet(labels, node) # label
     THEN [labels |-> MapSet(labels, node, label), changed |-> TRUE]
     ELSE [labels |-> labels, changed |-> changed]

(***************************************************************************)
(* Texts: the string operations the analyzers use.                         *)
(***************************************************************************)
UpperCase == 
  <<"A", "B", "C", "D", "E", "F", "G", "H", "I", "J", "K", "L", "M", "N",
  "O", "P", "Q", "R", "S", "T", "U", "V", "W", "X", "Y", "Z">>
LowerCase == 
  <<"a", "b", "c", "d", "e", "f", "g", "h", "i", "j", "k", "l", "m", "n",
  "o", "p", "q", "r", "s", "t", "u", "v", "w", "x", "y", "z">>

charToLowerCase(c) ==
  IF \E i \in 1..Len(UpperCase) : UpperCase[i] = c
  THEN LowerCase[CHOOSE i \in 1..Len(UpperCase) : UpperCase[i] = c]
  ELSE c

toLowerCase(text) == [i \in 1..Len(text) |-> charToLowerCase(text[i])]

\* Positions (0-based) at which `search' occurs in `text'.
Occurrences(text, search) ==
  {i \in 0..(Len(text) - Len(search)) :
     SubSeq(text, i + 1, i + Len(search)) = search}

includes(text, search) == Occurrences(text, search) # {}

Min(S) == CHOOSE x \in S : \A y \in S : x <= y

\* String.prototype.replace with a string pattern: the first occurrence.
replace(text, search, replacement) ==
  IF ~includes(text, search) THEN text
  ELSE LET i == Min(Occurrences(text, search))
       IN SubSeq(text, 1, i) \o replacement
          \o SubSeq(text, i + Len(search) + 1, Len(text))

\* String.prototype.split(' ').
RECURSIVE splitOnSpace(_, _, _)
splitOnSpace(text, i, current) ==
  IF i > Len(text) THEN <<current>>
  ELSE IF text[i] = " " THEN <<current>> \o splitOnSpace(text, i + 1, <<>>)
  ELSE splitOnSpace(text, i + 1, Append(current, text[i]))

WhiteSpace == {" ", "\t", "\n"}

\* String.prototype.split(/\s+/): a run of white space is one separator.
RECURSIVE splitOnWhiteSpace(_, _, _)
splitOnWhiteSpace(text, i, current) ==
  IF i > Len(text) THEN <<current>>
  ELSE IF text[i] \in WhiteSpace
  THEN IF i > 1 /\ text[i - 1] \in WhiteSpace
       THEN splitOnWhiteSpace(text, i + 1, current)
       ELSE <<current>> \o splitOnWhiteSpace(text, i + 1, <<>>)
  ELSE splitOnWhiteSpace(text, i + 1, Append(current, text[i]))

(***************************************************************************)
(* ConsistencyChecker.                                                     *)
(***************************************************************************)
contradictions ==
  <<<<<<"i", "n", "c", "r", "e", "a", "s", "e">>,
      <<"d", "e", "c", "r", "e", "a", "s", "e">>>>,
    <<<<"s", "a", "v", "e">>,
      <<"s", "p", "e", "n", "d">>>>,
    <<<<"e", "x", "p", "a", "n", "d">>,
      <<"r", "e", "d", "u", "c", "e">>>>,
    <<<<"g", "r", "o", "w">>,
      <<"s", "h", "r", "i", "n", "k">>>>,
    <<<<"m", "o", "r", "e">>,
      <<"l", "e", "s", "s">>>>,
    <<<<"a", "d", "d">>,
      <<"r", "e", "m", "o", "v", "e">>>>,
    <<<<"s", "t", "a", "r", "t">>,
      <<"s", "t", "o", "p">>>>,
    <<<<"o", "p", "e", "n">>,
      <<"c", "l", "o", "s", "e">>>>,
    <<<<"g", "a", "i", "n">>,
      <<"l", "o", "s", "e">>>>,
    <<<<"f", "a", "s", "t">>,
      <<"s", "l", "o", "w">>>>,
    <<<<"b", "i", "g">>,
      <<"s", "m", "a", "l", "l">>>>,
    <<<<"a", "l", "w", "a", "y", "s">>,
      <<"n", "e", "v", "e", "r">>>>,
    <<<<"s", "u", "c", "c", "e", "s", "s">>,
      <<"f", "a", "i", "l", "u", "r", "e">>>>>>

RECURSIVE conceptsOfBranches(_, _)
conceptsOfBranches(branches, i) ==
  IF i > Len(branches) THEN <<>>
  ELSE <<branches[i].title>> \o branches[i].subBranches
       \o conceptsOfBranches(branches, i + 1)

getAllConcepts(mm) == <<mm.centralIdea>> \o conceptsOfBranches(mm.branches, 1)

\* Concatenation of the sequences of a sequence, in order.
RECURSIVE Flatten(_)
Flatten(seqs) ==
  IF Len(seqs) = 0 THEN <<>> ELSE Head(seqs) \o Flatten(Tail(seqs))

\* The pairs (i, j), i < j, in the order of the two nested loops.
PairsInOrder(n) ==
  LET row(i) == [k \in 1..(n - i) |-> <<i, i + k>>]
  IN Flatten([q \in 1..n |-> row(q)])

\* The test of the antonym pairs in one direction only.
antonymIssues_oneDirection(allConcepts, i, j) ==
  LET concept1 == toLowerCase(allConcepts[i])
      concept2 == toLowerCase(allConcepts[j])
      one(p) ==
        LET word1 == contradictions[p][1]
            word2 == contradictions[p][2]
        IN IF includes(concept1, word1) /\ includes(concept2, word2)
           THEN <<[type |-> "contradiction", severity |-> "medium",
                   concept1 |-> allConcepts[i], concept2 |-> allConcepts[j],
                   reason |-> <<"contradictory terms", word1, word2>>]>>
           ELSE <<>>
  IN Flatten([q \in 1..Len(contradictions) |-> one(q)])

antonymIssues(allConcepts, i, j) ==
  LET concept1 == toLowerCase(allConcepts[i])
      concept2 == toLowerCase(allConcepts[j])
      one(p) ==
        LET word1 == contradictions[p][1]
            word2 == contradictions[p][2]
        IN IF \/ (includes(concept1, word1) /\ includes(concept2, word2))
              \/ (includes(concept1, word2) /\ includes(concept2, word1))
           THEN <<[type |-> "contradiction", severity |-> "medium",
                   concept1 |-> allConcepts[i], concept2 |-> allConcepts[j],
                   reason |-> <<"contradictory terms", word1, word2>>]>>
           ELSE <<>>
  IN Flatten([q \in 1..Len(contradictions) |-> one(q)])

NotMarker == <<"n", "o", "t", " ">>

negationIssues(allConcepts, i, j) ==
  LET concept1 == toLowerCase(allConcepts[i])
      concept2 == toLowerCase(allConcepts[j])
  IN IF \/ (includes(concept1, NotMarker)
            /\ replace(concept2, NotMarker, <<>>) = replace(concept1, NotMarker, <<>>))
        \/ (includes(concept2, NotMarker)
            /\ replace(concept1, NotMarker, <<>>) = replace(concept2, NotMarker, <<>>))
     THEN <<[type |-> "contradiction", severity |-> "high",
             concept1 |-> allConcepts[i], concept2 |-> allConcepts[j],
             reason |-> <<"direct negation">>]>>
     ELSE <<>>

detectContradictions(mm) ==
  LET allConcepts == getAllConcepts(mm)
      pairs == PairsInOrder(Len(allConcepts))
      one(p) == antonymIssues(allConcepts, pairs[p][1], pairs[p][2])
                \o negationIssues(allConcepts, pairs[p][1], pairs[p][2])
  IN Flatten([q \in 1..Len(pairs) |-> one(q)])

calculateTextSimilarity(text1, text2) ==
  LET words1 == Range(splitOnWhiteSpace(toLowerCase(text1), 1, <<>>))
      words2 == Range(splitOnWhiteSpace(toLowerCase(text2), 1, <<>>))
  IN NumDiv(Num(Cardinality(words1 \cap words2)),
            Num(Cardinality(words1 \cup words2)))

findRedundancies_allHigh(mm) ==
  LET allConcepts == getAllConcepts(mm)
      pairs == PairsInOrder(Len(allConcepts))
      one(p) ==
        LET c1 == allConcepts[pairs[p][1]]
            c2 == allConcepts[pairs[p][2]]
            similarity == calculateTextSimilarity(c1, c2)
        IN IF NumGt(similarity, Rat(7, 10))
           THEN <<[type |-> "redundancy",
                   severity |-> "high",
                   concepts |-> <<c1, c2>>,
                   similarity |-> similarity]>>
           ELSE <<>>
  IN Flatten([q \in 1..Len(pairs) |-> one(q)])

findRedundancies(mm) ==
  LET allConcepts == getAllConcepts(mm)
      pairs == PairsInOrder(Len(allConcepts))
      one(p) ==
        LET c1 == allConcepts[pairs[p][1]]
            c2 == allConcepts[pairs[p][2]]
            similarity == calculateTextSimilarity(c1, c2)
        IN IF NumGt(similarity, Rat(7, 10))
           THEN <<[type |-> "redundancy",
                   severity |-> IF NumGt(similarity, Rat(9, 10))
                                THEN "high" ELSE "medium",
                   concepts |-> <<c1, c2>>,
                   similarity |-> similarity]>>
           ELSE <<>>
  IN Flatten([q \in 1..Len(pairs) |-> one(q)])

validateHierarchy(mm) ==
  LET ofBranch(b) ==
        LET branch == mm.branches[b]
            ofSub(k) ==
              LET subBranch == branch.subBranches[k]
              IN (IF includes(toLowerCase(subBranch), toLowerCase(branch.title))
                  THEN <<[type |-> "hierarchy", severity |-> "low",
                          parent |-> branch.title, child |-> subBranch,
                          reason |-> <<"redundant with parent">>]>>
                  ELSE <<>>)
                 \o
                 (IF Len(splitOnSpace(subBranch, 1, <<>>)) < 2
                  THEN <<[type |-> "hierarchy", severity |-> "low",
                          parent |-> branch.title, child |-> subBranch,
                          reason |-> <<"very brief">>]>>
                  ELSE <<>>)
        IN Flatten([q \in 1..Len(branch.subBranches) |-> ofSub(q)])
  IN Flatten([q \in 1..Len(mm.branches) |-> ofBranch(q)])

branchSizesOf(mm) ==
  [i \in 1..Len(mm.branches) |-> Len(mm.branches[i].subBranches)]

RECURSIVE SumSeq(_, _)
SumSeq(s, i) == IF i = 0 THEN 0 ELSE s[i] + SumSeq(s, i - 1)

RECURSIVE sumSquaredDeviations(_, _, _)
sumSquaredDeviations(sizes, avgSize, i) ==
  IF i = 0 THEN Num(0)
  ELSE NumAdd(sumSquaredDeviations(sizes, avgSize, i - 1),
              NumMul(NumSub(Num(sizes[i]), avgSize),
                     NumSub(Num(sizes[i]), avgSize)))

avgSizeOf(branchSizes) ==
  NumDiv(Num(SumSeq(branchSizes, Len(branchSizes))), Num(Len(branchSizes)))

varianceOf(branchSizes, avgSize) ==
  NumDiv(sumSquaredDeviations(branchSizes, avgSize, Len(branchSizes)),
         Num(Len(branchSizes)))

\* x < Math.sqrt(v) * c and Math.sqrt(v) * c < x for a finite v >= 0 and
\* c > 0, decided on the squares.
SqrtTimesLt(v, c, x) ==
  /\ IsFinite(v) /\ IsFinite(x)
  /\ NumGt(x, Num(0))
  /\ NumLt(NumMul(NumMul(Num(c), Num(c)), v), NumMul(x, x))

\* Variant: the three tests chained, so that a thin branch without
\* sub-topics gets the medium gap only.
checkCompleteness_firstOnly(mm) ==
  LET branchSizes == branchSizesOf(mm)
      avgSize == avgSizeOf(branchSizes)
      variance == varianceOf(branchSizes, avgSize)
      ofBranch(idx) ==
        LET branch == mm.branches[idx]
            size == Len(branch.subBranches)
        IN (IF SqrtTimesLt(variance, 1, NumSub(avgSize, Num(size))) /\ size < 3
            THEN <<[type |-> "gap", severity |-> "medium",
                    branch |-> branch.title,
                    reason |-> <<"fewer sub-topics than average">>]>>
            ELSE IF size = 0
            THEN <<[type |-> "gap", severity |-> "high",
                    branch |-> branch.title,
                    reason |-> <<"no sub-topics">>]>>
            ELSE <<>>)
           \o
           (IF SqrtTimesLt(variance, 2, NumSub(Num(size), avgSize)) /\ size > 8
            THEN <<[type |-> "gap", severity |-> "low",
                    branch |-> branch.title,
                    reason |-> <<"many sub-topics">>]>>
            ELSE <<>>)
  IN Flatten([q \in 1..Len(mm.branches) |-> ofBranch(q)])

checkCompleteness(mm) ==
  LET branchSizes == branchSizesOf(mm)
      avgSize == avgSizeOf(branchSizes)
      variance == varianceOf(branchSizes, avgSize)
      ofBranch(idx) ==
        LET branch == mm.branches[idx]
            size == Len(branch.subBranches)
        IN (IF SqrtTimesLt(variance, 1, NumSub(avgSize, Num(size))) /\ size < 3
            THEN <<[type |-> "gap", severity |-> "medium",
                    branch |-> branch.title,
                    reason |-> <<"fewer sub-topics than average">>]>>
            ELSE <<>>)
           \o
           (IF size = 0
            THEN <<[type |-> "gap", severity |-> "high",
                    branch |-> branch.title,
                    reason |-> <<"no sub-topics">>]>>
            ELSE <<>>)
           \o
           (IF SqrtTimesLt(variance, 2, NumSub(Num(size), avgSize)) /\ size > 8
            THEN <<[type |-> "gap", severity |-> "low",
                    branch |-> branch.title,
                    reason |-> <<"many sub-topics">>]>>
            ELSE <<>>)
  IN Flatten([q \in 1..Len(mm.branches) |-> ofBranch(q)])

RECURSIVE deductions(_, _)
deductions(issues, i) ==
  IF i = 0 THEN 0
  ELSE deductions(issues, i - 1)
       + (IF issues[i].severity = "high" THEN 10
          ELSE IF issues[i].severity = "medium" THEN 5
          ELSE IF issues[i].severity = "low" THEN 2
          ELSE 0)

\* Variant: the score is capped at 100 but not floored at 0.
calculateScore_noFloor(issues, statistics) ==
  LET score == 100 - deductions(issues, Len(issues))
      bonus == IF NumGt(statistics.balanceScore, Rat(8, 10)) THEN 5 ELSE 0
  IN MathMin(Num(100), Num(score + bonus))

calculateScore(issues, statistics) ==
  LET score == 100 - deductions(issues, Len(issues))
      bonus == IF NumGt(statistics.balanceScore, Rat(8, 10)) THEN 5 ELSE 0
  IN MathMax(Num(0), MathMin(Num(100), Num(score + bonus)))

calculateStatistics(mm, g) ==
  LET branchSizes == branchSizesOf(mm)
      totalSubBranches == SumSeq(branchSizes, Len(branchSizes))
      avgBranchDepth == NumDiv(Num(totalSubBranches), Num(Len(mm.branches)))
      avgSize == avgBranchDepth
      variance == varianceOf(branchSizes, avgSize)
      balanceScore ==
        MathMax(Num(0),
                NumSub(Num(1), NumDiv(variance, NumMul(avgSize, avgSize))))
  IN [totalNodes |-> Len(getAllNodes(g)),
      branchCount |-> Len(mm.branches),
      avgBranchDepth |-> avgBranchDepth,
      balanceScore |-> balanceScore]

check(mm, g) ==
  LET issues == detectContradictions(mm) \o findRedundancies(mm)
                \o validateHierarchy(mm) \o checkCompleteness(mm)
      statistics == calculateStatistics(mm, g)
      score == calculateScore(issues, statistics)
  IN [score |-> score, issues |-> issues, statistics |-> statistics]


(***************************************************************************)
(* SemanticAnalyzer: similarities.  A cosine similarity dot / sqrt(d) is   *)
(* kept as the record [k |-> "cos", n |-> dot, d |-> d]; similarities are  *)
(* compared on their signed squares.                                       *)
(***************************************************************************)
TypeError == [kind |-> "TypeError"]

jaccardSimilarity(text1, text2) ==
  LET words1 == Range(splitOnWhiteSpace(toLowerCase(text1), 1, <<>>))
      words2 == Range(splitOnWhiteSpace(toLowerCase(text2), 1, <<>>))
      intersection == words1 \cap words2
      union == words1 \cup words2
  IN IF Cardinality(union) = 0 THEN Num(0)
     ELSE NumDiv(Num(Cardinality(intersection)), Num(Cardinality(union)))

getNgrams(text, n) == [i \in 1..(Len(text) - n + 1) |-> SubSeq(text, i, i + n - 1)]

ngramSimilarity(text1, text2, n) ==
  LET set1 == Range(getNgrams(toLowerCase(text1), n))
      set2 == Range(getNgrams(toLowerCase(text2), n))
      intersection == set1 \cap set2
      union == set1 \cup set2
  IN IF Cardinality(union) = 0 THEN Num(0)
     ELSE NumDiv(Num(Cardinality(intersection)), Num(Cardinality(union)))

textSimilarity(text1, text2) ==
  NumDiv(NumAdd(jaccardSimilarity(text1, text2),
                ngramSimilarity(text1, text2, 2)),
         Num(2))

RECURSIVE dotProduct(_, _, _)
dotProduct(vec1, vec2, i) ==
  IF i = 0 THEN 0 ELSE dotProduct(vec1, vec2, i - 1) + vec1[i] * vec2[i]

\* The result of Map.get: a vector, or undefined.
Defined(vec) == [defined |-> TRUE, vec |-> vec]
UndefinedVector == [defined |-> FALSE, vec |-> <<>>]

\* cosineSimilarity without the test of the magnitudes.
cosineSimilarity_unguarded(vec1, vec2) ==
  LET dot == dotProduct(vec1.vec, vec2.vec, Len(vec1.vec))
      mag1 == dotProduct(vec1.vec, vec1.vec, Len(vec1.vec))
      mag2 == dotProduct(vec2.vec, vec2.vec, Len(vec1.vec))
  IN IF mag1 = 0 \/ mag2 = 0 THEN NumDiv(Num(dot), Num(0))
     ELSE [k |-> "cos", n |-> dot, d |-> mag1 * mag2]

\* Reading a property of an undefined vector is a TypeError.
cosineSimilarity(vec1, vec2) ==
  IF ~vec1.defined THEN TypeError
  ELSE IF ~vec2.defined /\ Len(vec1.vec) > 0 THEN TypeError
  ELSE IF ~vec2.defined THEN Num(0)
  ELSE
    LET dot == dotProduct(vec1.vec, vec2.vec, Len(vec1.vec))
        mag1 == dotProduct(vec1.vec, vec1.vec, Len(vec1.vec))
        mag2 == dotProduct(vec2.vec, vec2.vec, Len(vec1.vec))
    IN IF mag1 = 0 \/ mag2 = 0 THEN Num(0)
       ELSE [k |-> "cos", n |-> dot, d |-> mag1 * mag2]

SignedSquare(x) ==
  IF x.k = "cos" THEN Rat((IF x.n < 0 THEN -1 ELSE 1) * x.n * x.n, x.d)
  ELSE IF x.k = "fin" THEN Rat(Sign(x) * x.n * x.n, x.d * x.d)
  ELSE x

SimLt(x, y) == NumLt(SignedSquare(x), SignedSquare(y))

\* this.embeddings is null or a Map from concept to vector.
EmbeddingMap(entries) == [kind |-> "Map", entries |-> entries]

embeddingOf(emb, concept) ==
  IF MapHas(emb.entries, concept)
  THEN Defined(MapGet(emb.entries, concept))
  ELSE UndefinedVector

\* Array.prototype.sort((a, b) => b.similarity - a.similarity): stable.
RECURSIVE insertBySimilarity(_, _)
insertBySimilarity(sorted, x) ==
  IF Len(sorted) = 0 THEN <<x>>
  ELSE IF ~SimLt(sorted[Len(sorted)].similarity, x.similarity)
  THEN Append(sorted, x)
  ELSE Append(insertBySimilarity(SubSeq(sorted, 1, Len(sorted) - 1), x),
              sorted[Len(sorted)])

RECURSIVE sortBySimilarity(_)
sortBySimilarity(s) ==
  IF Len(s) = 0 THEN <<>>
  ELSE insertBySimilarity(sortBySimilarity(SubSeq(s, 1, Len(s) - 1)), s[Len(s)])

\* Array.prototype.sort((a, b) => b.confidence - a.confidence): stable.
RECURSIVE insertByConfidence(_, _)
insertByConfidence(sorted, x) ==
  IF Len(sorted) = 0 THEN <<x>>
  ELSE IF ~SimLt(sorted[Len(sorted)].confidence, x.confidence)
  THEN Append(sorted, x)
  ELSE Append(insertByConfidence(SubSeq(sorted, 1, Len(sorted) - 1), x),
              sorted[Len(sorted)])

RECURSIVE sortByConfidence(_)
sortByConfidence(s) ==
  IF Len(s) = 0 THEN <<>>
  ELSE insertByConfidence(sortByConfidence(SubSeq(s, 1, Len(s) - 1)), s[Len(s)])

similarityOf(emb, text1, text2) ==
  IF emb # Null
  THEN cosineSimilarity(embeddingOf(emb, text1), embeddingOf(emb, text2))
  ELSE textSimilarity(text1, text2)

\* The similarities of findSimilarConcepts; threw if computing one of them
\* throws.
findSimilarConcepts(mm, emb) ==
  LET concepts == getAllConcepts(mm)
      pairs == PairsInOrder(Len(concepts))
      sim == [p \in 1..Len(pairs) |->
                similarityOf(emb, concepts[pairs[p][1]], concepts[pairs[p][2]])]
      one(p) ==
        IF SimLt(Rat(3, 10), sim[p]) /\ SimLt(sim[p], Rat(8, 10))
        THEN <<[concept1 |-> concepts[pairs[p][1]],
                concept2 |-> concepts[pairs[p][2]],
                similarity |-> sim[p],
                method |-> IF emb # Null THEN "embedding" ELSE "text"]>>
        ELSE <<>>
  IN IF \E p \in 1..Len(pairs) : sim[p] = TypeError
     THEN [threw |-> TRUE, value |-> <<>>]
     ELSE [threw |-> FALSE,
           value |-> sortBySimilarity(
                       Flatten([q \in 1..Len(pairs) |-> one(q)]))]

findNodeByConcept(g, concept) ==
  LET all == getAllNodes(g)
      found == {i \in 1..Len(all) : all[i].label = concept}
  IN IF found = {} THEN Null ELSE all[Min(found)]

suggestNewConnections(g, similarities) ==
  LET top == SubSeq(similarities, 1, Min({10, Len(similarities)}))
      one(i) ==
        LET node1 == findNodeByConcept(g, top[i].concept1)
            node2 == findNodeByConcept(g, top[i].concept2)
        IN IF node1 # Null /\ node2 # Null
              /\ node1.branchIndex # node2.branchIndex
           THEN <<[from |-> top[i].concept1, to |-> top[i].concept2,
                   confidence |-> top[i].similarity]>>
           ELSE <<>>
  IN sortByConfidence(Flatten([q \in 1..Len(top) |-> one(q)]))

RECURSIVE relate(_, _, _)
relate(relatedMap, similarities, i) ==
  IF i > Len(similarities) THEN relatedMap
  ELSE
    LET sim == similarities[i]
        m1 == IF MapHas(relatedMap, sim.concept1) THEN relatedMap
              ELSE MapSet(relatedMap, sim.concept1, <<>>)
        m2 == MapSet(m1, sim.concept1,
                     Append(MapGet(m1, sim.concept1), sim.concept2))
        m3 == IF MapHas(m2, sim.concept2) THEN m2
              ELSE MapSet(m2, sim.concept2, <<>>)
        m4 == MapSet(m3, sim.concept2,
                     Append(MapGet(m3, sim.concept2), sim.concept1))
    IN relate(m4, similarities, i + 1)

buildRelatedConceptsMap(similarities) == relate(<<>>, similarities, 1)

\* The part of analyze after the embeddings: the promise it returns is
\* fulfilled with the result, or rejected if a step throws.  The clusters
\* of the result come from MindMapGraph.findClusters, which reads no
\* embedding and throws nothing; they are not part of this record.
analysisOf(mm, g, emb) ==
  LET found == findSimilarConcepts(mm, emb)
      similarities == found.value
  IN IF found.threw
     THEN [state |-> "rejected", reason |-> TypeError]
     ELSE [state |-> "fulfilled",
           similarities |-> similarities,
           suggestedConnections |-> suggestNewConnections(g, similarities),
           relatedConcepts |-> buildRelatedConceptsMap(similarities)]

\* What the embedding endpoint answers to fetch: the promise is rejected,
\* or fulfilled with a response of some status whose body is not JSON, is
\* an object without embeddings, or is an object with a list of embeddings.
Response(settled, ok, json, hasEmbeddings, list) ==
  [settled |-> settled, ok |-> ok, json |-> json,
   hasEmbeddings |-> hasEmbeddings, embeddings |-> list]

NoResponse == Response("none", FALSE, "none", FALSE, <<>>)

RECURSIVE setEmbeddings(_, _, _, _)
setEmbeddings(emb, concepts, list, idx) ==
  IF idx > Len(list) THEN emb
  ELSE setEmbeddings(MapSet(emb, concepts[idx], list[idx]), concepts, list,
                     idx + 1)

\* The value of this.embeddings when generateEmbeddings returns.
generateEmbeddings(emb, mm, response) ==
  IF response.settled = "rejected" THEN Null
  ELSE IF ~response.ok THEN emb
  ELSE IF response.json # "object" THEN Null
  ELSE IF ~response.hasEmbeddings THEN Null
  ELSE EmbeddingMap(
         setEmbeddings(<<>>, getAllConcepts(mm), response.embeddings, 1))

(***************************************************************************)
(* Mind maps.  A text is a sequence of characters.                         *)
(***************************************************************************)
MindMapOf(centralIdea, branches) ==
  [centralIdea |-> centralIdea, branches |-> branches]

Branch(title, subBranches) == [title |-> title, subBranches |-> subBranches]

\* The example of the specification's section 8.
LearnGuitar ==
  MindMapOf(<<"L", "e", "a", "r", "n", " ", "G", "u", "i", "t", "a", "r">>,
    <<Branch(<<"T", "e", "c", "h", "n", "i", "q", "u", "e">>,
             <<<<"F", "i", "n", "g", "e", "r", " ", "e", "x", "e", "r", "c", "i", "s", "e", "s">>,
               <<"C", "h", "o", "r", "d", " ", "t", "r", "a", "n", "s", "i", "t", "i", "o", "n", "s">>>>),
      Branch(<<"T", "h", "e", "o", "r", "y">>,
             <<<<"S", "c", "a", "l", "e", "s">>,
               <<"K", "e", "y", " ", "s", "i", "g", "n", "a", "t", "u", "r", "e", "s">>>>)>>)

\* Every shape of at most MaxBranches branches of at most MaxSubs
\* sub-branches each; the labels repeat, as labels are not deduplicated.
ShapeMap(shape) ==
  MindMapOf(<<"m">>,
    [i \in 1..Len(shape) |->
       Branch(<<"t">>, [j \in 1..shape[i] |-> <<"t">>])])

Shapes == UNION {[1..B -> 0..MaxSubs] : B \in 0..MaxBranches}

GraphMindMaps == {ShapeMap(shape) : shape \in Shapes} \cup {LearnGuitar}

(***************************************************************************)
(* State of one MindMapGraph and the calls made on it.                     *)
(***************************************************************************)
G == [nodes |-> nodes, edges |-> edges, adjacencyList |-> adjacencyList]

\* No call has been made, or the caller has taken the result of its last one.
NoCall == [op |-> "none", args |-> <<>>]

\* No item is stored and the InsightsPanel is in its first state.
NoPage ==
  /\ localStorage = <<>>
  /\ activeTab = "overview"
  /\ isAnalyzing = FALSE
  /\ useAI = FALSE
  /\ consistencyReport
       = [score |-> Num(0), issues |-> <<>>, statistics |-> Null]
  /\ centralConcepts = <<>>
  /\ clusters = <<>>
  /\ suggestions = <<>>

Constructed(maps) ==
  /\ mindMap \in maps
  /\ LET g == buildGraph(mindMap)
     IN /\ nodes = g.nodes
        /\ edges = g.edges
        /\ adjacencyList = g.adjacencyList
  /\ embeddings = Null
  /\ NoPage
  /\ call = NoCall
  /\ ret = Null

\* Ids a caller may pass: the ids of the graph and ids that are not in it.
UnknownIds == {"missing", "branch-9"}
QueryIds == Range(MapKeys(nodes)) \cup UnknownIds
MaxDepths == {2, 6, 10}

\* The methods are synchronous: a call is made when no other is under way,
\* and its result is there when it returns.
Returns(op, args, value) ==
  /\ call = NoCall
  /\ call' = [op |-> op, args |-> args]
  /\ ret' = value
  /\ UNCHANGED <<mindMap, nodes, edges, adjacencyList, embeddings, calls, page>>

\* The caller takes the result and is free to make its next call.
TakeResult ==
  /\ call # NoCall
  /\ call' = NoCall
  /\ ret' = Null
  /\ UNCHANGED <<mindMap, nodes, edges, adjacencyList, embeddings, calls, page>>

CallFindShortestPath ==
  \E a \in QueryIds, b \in QueryIds :
    Returns("findShortestPath", <<a, b>>, findShortestPath(G, a, b))

CallFindAllPaths ==
  \E a \in QueryIds, b \in QueryIds, maxDepth \in MaxDepths :
    Returns("findAllPaths", <<a, b, maxDepth>>, findAllPaths(G, a, b, maxDepth))

CallCalculateDistance ==
  \E a \in QueryIds, b \in QueryIds :
    Returns("calculateDistance", <<a, b>>, calculateDistance(G, a, b))

CallCalculateDegreeCentrality ==
  Returns("calculateDegreeCentrality", <<>>, calculateDegreeCentrality(G))

CallCalculateBetweennessCentrality ==
  Returns("calculateBetweennessCentrality", <<>>,
          calculateBetweennessCentrality(G))

CallGetAllNodes == Returns("getAllNodes", <<>>, getAllNodes(G))

CallGetNode == \E id \in QueryIds : Returns("getNode", <<id>>, getNode(G, id))

CallGetNeighbors ==
  \E id \in QueryIds : Returns("getNeighbors", <<id>>, getNeighbors(G, id))

InitGraph == Constructed(GraphMindMaps) /\ calls = <<>>

NextGraph ==
  \/ CallFindShortestPath
  \/ CallFindAllPaths
  \/ CallCalculateDistance
  \/ CallCalculateDegreeCentrality
  \/ CallCalculateBetweennessCentrality
  \/ CallGetAllNodes
  \/ CallGetNode
  \/ CallGetNeighbors
  \/ TakeResult

SpecGraph == InitGraph /\ [][NextGraph]_vars

(***************************************************************************)
(* A ConsistencyChecker over its mind map and the graph it builds of it.   *)
(***************************************************************************)
MaxHigh == 11
MaxOther == 1

TextPool ==
  {<<"g", "a", "i", "n", " ", "x">>,
   <<"L", "o", "s", "e", " ", "y">>,
   <<"n", "o", "t", " ", "g", "a", "i", "n", " ", "x">>}

\* Two branches, the first with one sub-branch, of texts of the pool.
TextMaps ==
  {MindMapOf(<<"P", "l", "a", "n">>, <<Branch(t1, <<s1>>), Branch(t2, <<>>)>>) :
     t1 \in TextPool, s1 \in TextPool, t2 \in TextPool}

\* Texts that hold antonyms of the table: the example of the
\* specification, two texts that hold one side of two pairs each, and a
\* text that holds a side inside a longer word.
AntonymPool ==
  {<<"i", "n", "c", "r", "e", "a", "s", "e", " ", "r", "e", "v", "e", "n", "u", "e">>,
   <<"d", "e", "c", "r", "e", "a", "s", "e", " ", "c", "o", "s", "t", "s">>,
   <<"A", "d", "d", " ", "l", "e", "s", "s">>,
   <<"R", "e", "m", "o", "v", "e", " ", "m", "o", "r", "e">>,
   <<"a", "d", "d", "r", "e", "s", "s">>}

AntonymMaps ==
  {MindMapOf(<<"P", "l", "a", "n">>, <<Branch(t1, <<>>), Branch(t2, <<>>)>>) :
     t1 \in AntonymPool, t2 \in AntonymPool}

\* Sub-branches of a branch "Ab": its title in another case, its title and
\* one more word, one word, one word and a space, two words.
SubBranchPool ==
  {<<"a", "b">>, <<"a", "b", " ", "c">>, <<"c">>, <<"c", " ">>,
   <<"c", " ", "d">>}

HierarchyMaps ==
  {MindMapOf(<<"P", "l", "a", "n">>, <<Branch(<<"A", "b">>, subBranches)>>) :
     subBranches \in UNION {[1..n -> SubBranchPool] : n \in 1..2}}

CheckMindMaps ==
  GraphMindMaps \cup TextMaps \cup AntonymMaps \cup HierarchyMaps

\* Issue lists of h high, m medium and l low issues.
IssueOf(severity) == [type |-> "gap", severity |-> severity]

IssueList(h, m, l) ==
  [i \in 1..(h + m + l) |->
     IssueOf(IF i <= h THEN "high" ELSE IF i <= h + m THEN "medium" ELSE "low")]

BalanceScores == {NaN, Rat(4, 5), Num(1)}

CallCheck == Returns("check", <<>>, check(mindMap, G))

CallDetectContradictions ==
  Returns("detectContradictions", <<>>, detectContradictions(mindMap))

CallFindRedundancies ==
  Returns("findRedundancies", <<>>, findRedundancies(mindMap))

CallValidateHierarchy ==
  Returns("validateHierarchy", <<>>, validateHierarchy(mindMap))

CallCheckCompleteness ==
  Returns("checkCompleteness", <<>>, checkCompleteness(mindMap))

CallCalculateScore ==
  \E h \in 0..MaxHigh, m \in 0..MaxOther, l \in 0..MaxOther,
     balanceScore \in BalanceScores :
    LET issues == IssueList(h, m, l)
        statistics == [totalNodes |-> Len(nodes),
                       branchCount |-> Len(mindMap.branches),
                       avgBranchDepth |-> Num(1),
                       balanceScore |-> balanceScore]
    IN Returns("calculateScore", <<issues, statistics>>,
               calculateScore(issues, statistics))

InitCheck == Constructed(CheckMindMaps) /\ calls = <<>>

NextCheck ==
  \/ CallCheck
  \/ CallDetectContradictions
  \/ CallFindRedundancies
  \/ CallValidateHierarchy
  \/ CallCheckCompleteness
  \/ CallCalculateScore
  \/ TakeResult

SpecCheck == InitCheck /\ [][NextCheck]_vars

(***************************************************************************)
(* checkCompleteness on mind maps with thin and with large branches.       *)
(***************************************************************************)
MaxThin == 3

\* Branch sizes for the gaps: six branches of which the first is large and
\* the others are empty, five such branches, three small branches.
SizeShapes ==
  {<<s, 0, 0, 0, 0, 0>> : s \in 8..9}
  \cup [1..3 -> 0..MaxThin]
  \cup {<<9, 0, 0, 0, 0>>}

SizeMaps == {ShapeMap(shape) : shape \in SizeShapes}

InitGaps == Constructed(SizeMaps) /\ calls = <<>>

NextGaps == CallCheckCompleteness \/ TakeResult

SpecGaps == InitGaps /\ [][NextGaps]_vars

\* Texts of the words a, b, c and d: three words, four words, the three
\* words in another case, order and spacing, the three words and a
\* trailing space, two words, and the empty text.
WordTextPool ==
  {<<"a", " ", "b", " ", "c">>,
   <<"a", " ", "b", " ", "c", " ", "d">>,
   <<"A", " ", " ", "c", " ", "b">>,
   <<"a", " ", "b", " ", "c", " ">>,
   <<"a", " ", "b">>,
   <<>>}

WordMaps ==
  {MindMapOf(t0, <<Branch(t1, <<t2>>)>>) :
     t0 \in WordTextPool, t1 \in WordTextPool, t2 \in WordTextPool}

InitRedundancies == Constructed(WordMaps) /\ calls = <<>>

NextRedundancies == CallFindRedundancies \/ TakeResult

SpecRedundancies == InitRedundancies /\ [][NextRedundancies]_vars

(***************************************************************************)
(* A SemanticAnalyzer: analyze calls on one instance.  An analyze(true)    *)
(* is suspended while its fetch is in flight and once more when            *)
(* generateEmbeddings returns; analyze(false) runs without suspension.     *)
(***************************************************************************)
MaxInFlight == 1

\* The text maps whose second branch is the antonym text, and two shapes.
SemMindMaps ==
  {mm \in TextMaps : mm.branches[2].title = <<"L", "o", "s", "e", " ", "y">>}
    \cup {ShapeMap(<<>>), ShapeMap(<<1>>)}

VecA == <<1, 0>>
VecB == <<1, 1>>

AlternatingList(n) == [i \in 1..n |-> IF i % 2 = 1 THEN VecA ELSE VecB]

EmbeddingLists(n) ==
  {AlternatingList(n), [i \in 1..n |-> VecA],
   SubSeq(AlternatingList(n), 1, n - 1), <<>>}

Responses(n) ==
  {Response("rejected", FALSE, "none", FALSE, <<>>),
   Response("fulfilled", FALSE, "none", FALSE, <<>>),
   Response("fulfilled", TRUE, "invalid", FALSE, <<>>),
   Response("fulfilled", TRUE, "object", FALSE, <<>>)}
  \cup {Response("fulfilled", TRUE, "object", TRUE, list) :
          list \in EmbeddingLists(n)}

Idle == [pc |-> "idle", response |-> NoResponse]

InitSem ==
  /\ Constructed(SemMindMaps)
  /\ calls = [k \in 1..MaxInFlight |-> Idle]

\* analyze(false)
Analyze ==
  /\ call' = [op |-> "analyze", args |-> <<FALSE, NoResponse>>]
  /\ ret' = analysisOf(mindMap, G, embeddings)
  /\ UNCHANGED <<mindMap, nodes, edges, adjacencyList, embeddings, calls, page>>

\* analyze(true), up to the fetch of generateEmbeddings
AnalyzeWithAI(k) ==
  /\ calls[k].pc = "idle"
  /\ calls' = [calls EXCEPT ![k] = [pc |-> "fetch", response |-> NoResponse]]
  /\ UNCHANGED <<mindMap, nodes, edges, adjacencyList, embeddings, call, ret, page>>

\* the fetch settles and generateEmbeddings runs to its end
FetchSettles(k) ==
  /\ calls[k].pc = "fetch"
  /\ \E response \in Responses(Len(getAllConcepts(mindMap))) :
       /\ embeddings' = generateEmbeddings(embeddings, mindMap, response)
       /\ calls' = [calls EXCEPT ![k] = [pc |-> "generated",
                                         response |-> response]]
  /\ UNCHANGED <<mindMap, nodes, edges, adjacencyList, call, ret, page>>

\* analyze(true) resumes after generateEmbeddings
AnalyzeResumes(k) ==
  /\ calls[k].pc = "generated"
  /\ call' = [op |-> "analyze", args |-> <<TRUE, calls[k].response>>]
  /\ ret' = analysisOf(mindMap, G, embeddings)
  /\ calls' = [calls EXCEPT ![k] = Idle]
  /\ UNCHANGED <<mindMap, nodes, edges, adjacencyList, embeddings, page>>

NextSem ==
  \/ Analyze
  \/ \E k \in 1..MaxInFlight : AnalyzeWithAI(k)
  \/ \E k \in 1..MaxInFlight : FetchSettles(k)
  \/ \E k \in 1..MaxInFlight : AnalyzeResumes(k)

SpecSem == InitSem /\ [][NextSem]_vars

(***************************************************************************)
(* The similarity functions of a SemanticAnalyzer, applied to texts and    *)
(* to vectors drawn from bounded sets.                                     *)
(***************************************************************************)
MaxTextLen == 2
MaxDim == 2

Alphabet == {"a", "B", " "}
Texts == UNION {[1..n -> Alphabet] : n \in 0..MaxTextLen}

Components == {-1, 0, 1}
Vectors(n) == [1..n -> Components]

CallTextSimilarity ==
  \E text1 \in Texts, text2 \in Texts :
    Returns("textSimilarity", <<text1, text2>>, textSimilarity(text1, text2))

CallJaccardSimilarity ==
  \E text1 \in Texts, text2 \in Texts :
    Returns("jaccardSimilarity", <<text1, text2>>,
            jaccardSimilarity(text1, text2))

CallNgramSimilarity ==
  \E text1 \in Texts, text2 \in Texts :
    Returns("ngramSimilarity", <<text1, text2>>,
            ngramSimilarity(text1, text2, 2))

CallCosineSimilarity ==
  \E n \in 0..MaxDim :
    \E vec1 \in Vectors(n), vec2 \in Vectors(n) :
      Returns("cosineSimilarity", <<vec1, vec2>>,
              cosineSimilarity(Defined(vec1), Defined(vec2)))

InitSim == Constructed({ShapeMap(<<1>>)}) /\ calls = <<>>

NextSim ==
  \/ CallTextSimilarity
  \/ CallJaccardSimilarity
  \/ CallNgramSimilarity
  \/ CallCosineSimilarity
  \/ TakeResult

SpecSim == InitSim /\ [][NextSim]_vars

(***************************************************************************)
(* generateMindMap: the request to the language model and the validation   *)
(* of its answer.  A JavaScript value is a record of its type and value.   *)
(***************************************************************************)
JsUndefined == [type |-> "undefined", value |-> <<>>]
JsNull == [type |-> "null", value |-> <<>>]
JsNumber == [type |-> "number", value |-> <<>>]
JsString(text) == [type |-> "string", value |-> text]
JsArray(items) == [type |-> "array", value |-> items]
JsObject(centralIdea, branches) ==
  [type |-> "object", centralIdea |-> centralIdea, branches |-> branches]

\* ToBoolean of the values above.
Truthy(v) ==
  CASE v.type = "undefined" -> FALSE
    [] v.type = "null" -> FALSE
    [] v.type = "string" -> Len(v.value) > 0
    [] OTHER -> TRUE

RECURSIVE trimStart(_)
trimStart(text) ==
  IF Len(text) > 0 /\ Head(text) \in WhiteSpace THEN trimStart(Tail(text))
  ELSE text

RECURSIVE trimEnd(_)
trimEnd(text) ==
  IF Len(text) > 0 /\ text[Len(text)] \in WhiteSpace
  THEN trimEnd(SubSeq(text, 1, Len(text) - 1))
  ELSE text

trim(text) == trimEnd(trimStart(text))

Error(message) == [kind |-> "Error", message |-> message]
NoError == [kind |-> "none", message |-> ""]
Rejected(reason) == [state |-> "rejected", reason |-> reason]
Fulfilled(value) == [state |-> "fulfilled", value |-> value]

\* The tests made before the request: the error thrown, if any.
argumentError(userInput, apiKey) ==
  IF ~Truthy(JsString(trim(userInput)))
  THEN Error("User input cannot be empty")
  ELSE IF ~Truthy(apiKey) THEN Error("API key is required")
  ELSE NoError

\* What the upstream answers to fetch.  body: whether response.json() is
\* fulfilled; data: what of candidates[0].content.parts[0].text the body
\* holds; parses: whether JSON.parse takes the text; parsed: its value.
GenResponse(settled, ok, body, data, parses, parsed) ==
  [settled |-> settled, ok |-> ok, body |-> body, data |-> data,
   parses |-> parses, parsed |-> parsed]

NoGenResponse == GenResponse("none", FALSE, "none", "none", FALSE, JsNull)

\* The part of generateMindMap after the fetch.
settle_unvalidated(response) ==
  IF response.settled = "rejected" THEN Rejected(TypeError)
  ELSE IF ~response.ok
  THEN Rejected(Error("Gemini API request failed"))
  ELSE IF response.body # "json"
  THEN Rejected([kind |-> "SyntaxError"])
  ELSE IF response.data = "null" THEN Rejected(TypeError)
  ELSE IF response.data # "text"
  THEN Rejected(Error("Invalid response format from Gemini API"))
  ELSE IF ~response.parses
  THEN Rejected(Error("Failed to parse Gemini response as JSON"))
  ELSE IF response.parsed.type = "null" THEN Rejected(TypeError)
  ELSE Fulfilled(response.parsed)

settle(response) ==
  IF response.settled = "rejected" THEN Rejected(TypeError)
  ELSE IF ~response.ok
  THEN Rejected(Error("Gemini API request failed"))
  ELSE IF response.body # "json"
  THEN Rejected([kind |-> "SyntaxError"])
  ELSE IF response.data = "null" THEN Rejected(TypeError)
  ELSE IF response.data # "text"
  THEN Rejected(Error("Invalid response format from Gemini API"))
  ELSE IF ~response.parses
  THEN Rejected(Error("Failed to parse Gemini response as JSON"))
  ELSE IF response.parsed.type = "null" THEN Rejected(TypeError)
  ELSE IF response.parsed.type # "object"
  THEN Rejected(Error("AI response does not match expected mind map structure"))
  ELSE IF \/ ~Truthy(response.parsed.centralIdea)
          \/ response.parsed.branches.type # "array"
  THEN Rejected(Error("AI response does not match expected mind map structure"))
  ELSE Fulfilled(response.parsed)

UserInputs == {<<>>, <<" ">>, <<"a">>, <<" ", "a", "\n">>}
ApiKeys == {JsUndefined, JsString(<<>>), JsString(<<"k">>)}

CentralIdeas == {JsUndefined, JsString(<<>>), JsString(<<"m">>)}
BranchLists ==
  {JsUndefined, JsObject(JsUndefined, JsUndefined), JsArray(<<>>),
   JsArray(<<Branch(<<"t">>, <<>>)>>)}

GenResponses ==
  {GenResponse("rejected", FALSE, "none", "none", FALSE, JsNull),
   GenResponse("fulfilled", FALSE, "invalid", "none", FALSE, JsNull),
   GenResponse("fulfilled", FALSE, "json", "none", FALSE, JsNull),
   GenResponse("fulfilled", TRUE, "invalid", "none", FALSE, JsNull),
   GenResponse("fulfilled", TRUE, "json", "null", FALSE, JsNull),
   GenResponse("fulfilled", TRUE, "json", "noCandidates", FALSE, JsNull),
   GenResponse("fulfilled", TRUE, "json", "noText", FALSE, JsNull),
   GenResponse("fulfilled", TRUE, "json", "text", FALSE, JsNull),
   GenResponse("fulfilled", TRUE, "json", "text", TRUE, JsNull),
   GenResponse("fulfilled", TRUE, "json", "text", TRUE, JsNumber)}
  \cup {GenResponse("fulfilled", TRUE, "json", "text", TRUE,
                     JsObject(centralIdea, branches)) :
          centralIdea \in CentralIdeas, branches \in BranchLists}

\* A call of generateMindMap that has not been made, or has returned;
\* requests counts the requests its last call sent upstream.
NotCalled ==
  [pc |-> "idle", userInput |-> <<>>, apiKey |-> JsUndefined, requests |-> 0]

InitGen ==
  /\ mindMap = MindMapOf(<<>>, <<>>)
  /\ nodes = <<>>
  /\ edges = <<>>
  /\ adjacencyList = <<>>
  /\ embeddings = Null
  /\ NoPage
  /\ calls = [k \in 1..MaxInFlight |-> NotCalled]
  /\ call = NoCall
  /\ ret = Null

\* generateMindMap(userInput, apiKey) up to its first await: it throws, or
\* sends the request.
GenerateMindMap(k) ==
  /\ calls[k].pc = "idle"
  /\ \E userInput \in UserInputs, apiKey \in ApiKeys :
       LET error == argumentError(userInput, apiKey)
       IN IF error # NoError
          THEN /\ call = NoCall
               /\ call' = [op |-> "generateMindMap",
                           args |-> <<userInput, apiKey, NoGenResponse, 0>>]
               /\ ret' = Rejected(error)
               /\ calls' = [calls EXCEPT ![k] = NotCalled]
          ELSE /\ calls' = [calls EXCEPT ![k] =
                              [pc |-> "fetch", userInput |-> userInput,
                               apiKey |-> apiKey, requests |-> 1]]
               /\ UNCHANGED <<call, ret, page>>
  /\ UNCHANGED <<mindMap, nodes, edges, adjacencyList, embeddings, page>>

\* The fetch settles and generateMindMap runs to its end.
UpstreamSettles(k) ==
  /\ calls[k].pc = "fetch"
  /\ call = NoCall
  /\ \E response \in GenResponses :
       /\ call' = [op |-> "generateMindMap",
                   args |-> <<calls[k].userInput, calls[k].apiKey, response,
                              calls[k].requests>>]
       /\ ret' = settle(response)
  /\ calls' = [calls EXCEPT ![k].pc = "idle"]
  /\ UNCHANGED <<mindMap, nodes, edges, adjacencyList, embeddings, page>>

NextGen ==
  \/ \E k \in 1..MaxInFlight : GenerateMindMap(k)
  \/ \E k \in 1..MaxInFlight : UpstreamSettles(k)
  \/ TakeResult

SpecGen == InitGen /\ [][NextGen]_vars

(***************************************************************************)
(* findClusters, one visit at a time: the shuffle of a round is the order  *)
(* in which the nodes not yet visited in the round are taken.              *)
(***************************************************************************)
MaxClusterNodes == 5

ClusterMindMaps ==
  {mm \in GraphMindMaps : Len(getAllConcepts(mm)) <= MaxClusterNodes}

\* The Map findClusters returns.
LabelMap(entries) == [kind |-> "Map", entries |-> entries]

NotClustering ==
  [pc |-> "idle", labels |-> <<>>, changed |-> FALSE, iterations |-> 0,
   pending |-> {}]

InitClusters == Constructed(ClusterMindMaps) /\ calls = NotClustering

\* findClusters() up to its loop
FindClustersBegins ==
  /\ calls.pc = "idle"
  /\ call = NoCall
  /\ calls' = [pc |-> "while", labels |-> initialLabels(G),
               changed |-> TRUE, iterations |-> 0, pending |-> {}]
  /\ UNCHANGED <<mindMap, nodes, edges, adjacencyList, embeddings, call, ret, page>>

\* while (changed && iterations < maxIterations): a round begins
RoundBegins ==
  /\ calls.pc = "while"
  /\ calls.changed /\ calls.iterations < maxIterations
  /\ calls' = [calls EXCEPT !.pc = "for", !.changed = FALSE,
                            !.iterations = @ + 1,
                            !.pending = Range(MapKeys(nodes))]
  /\ UNCHANGED <<mindMap, nodes, edges, adjacencyList, embeddings, call, ret, page>>

\* for (const node of shuffled): the next node of the round
Visit ==
  /\ calls.pc = "for"
  /\ \E node \in calls.pending :
       LET after == visit(G, calls.labels, calls.changed, node)
           pending == calls.pending \ {node}
       IN calls' = [calls EXCEPT !.labels = after.labels,
                                 !.changed = after.changed,
                                 !.pending = pending,
                                 !.pc = IF pending = {} THEN "while"
                                        ELSE "for"]
  /\ UNCHANGED <<mindMap, nodes, edges, adjacencyList, embeddings, call, ret, page>>

\* the loop ends and findClusters returns the labels
FindClustersReturns ==
  /\ calls.pc = "while"
  /\ ~(calls.changed /\ calls.iterations < maxIterations)
  /\ call = NoCall
  /\ call' = [op |-> "findClusters",
              args |-> <<calls.iterations, calls.changed>>]
  /\ ret' = LabelMap(calls.labels)
  /\ calls' = NotClustering
  /\ UNCHANGED <<mindMap, nodes, edges, adjacencyList, embeddings, page>>

NextClusters ==
  \/ FindClustersBegins
  \/ RoundBegins
  \/ Visit
  \/ FindClustersReturns
  \/ TakeResult

SpecClusters == InitClusters /\ [][NextClusters]_vars

\* findClusters is synchronous: once called it runs on until it returns.
SpecClustersRun ==
  SpecClusters /\ WF_calls(RoundBegins \/ Visit \/ FindClustersReturns)

(***************************************************************************)
(* suggestNewConnections applied to similarity lists in descending order,  *)
(* as findSimilarConcepts returns them.                                    *)
(***************************************************************************)
MaxSims == 11

\* A mind map of the given branch sizes whose concepts all differ.
LetterMap(shape) ==
  MindMapOf(<<"c">>,
    [i \in 1..Len(shape) |->
       Branch(<<"b", ToString(i)>>,
              [j \in 1..shape[i] |-> <<"s", ToString(i), ToString(j)>>])])

\* Maps of distinct concepts, and maps in which concepts repeat: a
\* sub-branch named as the other branch, and all branches named alike.
SuggestMindMaps ==
  {LetterMap(<<1, 1>>), LetterMap(<<2, 2>>), LetterMap(<<0, 2, 1>>),
   MindMapOf(<<"c">>, <<Branch(<<"b", "1">>, <<<<"b", "2">>>>),
                        Branch(<<"b", "2">>, <<<<"s">>>>)>>),
   ShapeMap(<<1, 1>>)}

\* A text that is no concept of the map.
NoConcept == <<"z">>

\* A list of len similarities over the pairs of concepts, from the pair
\* number start on, of similarities 0.78, 0.77, ...; with ghost, every
\* third entry names a text that is no concept.
SimilarityList(mm, start, len, ghost) ==
  LET concepts == getAllConcepts(mm)
      pairs == PairsInOrder(Len(concepts))
      pair(i) == pairs[((start + i - 2) % Len(pairs)) + 1]
  IN [i \in 1..len |->
        [concept1 |-> concepts[pair(i)[1]],
         concept2 |-> IF ghost /\ i % 3 = 0 THEN NoConcept
                      ELSE concepts[pair(i)[2]],
         similarity |-> Rat(79 - i, 100),
         method |-> "text"]]

CallSuggestNewConnections ==
  \E start \in 1..Len(PairsInOrder(Len(getAllConcepts(mindMap)))),
     len \in 0..MaxSims, ghost \in BOOLEAN :
    LET similarities == SimilarityList(mindMap, start, len, ghost)
    IN Returns("suggestNewConnections", <<similarities>>,
               suggestNewConnections(G, similarities))

InitSuggest == Constructed(SuggestMindMaps) /\ calls = <<>>

NextSuggest == CallSuggestNewConnections \/ TakeResult

SpecSuggest == InitSuggest /\ [][NextSuggest]_vars

(***************************************************************************)
(* JSON.  A JSON text is the sequence of its tokens; an object is the       *)
(* insertion-ordered list of its properties.                                *)
(***************************************************************************)
JsBoolean(b) == [type |-> "boolean", value |-> b]
JsNumberOf(n) == [type |-> "number", value |-> n]
JsObjectOf(properties) == [type |-> "object", value |-> properties]

Punctuator(c) == [token |-> c, value |-> <<>>]
StringToken(text) == [token |-> "string", value |-> text]
NumberToken(n) == [token |-> "number", value |-> n]
LiteralToken(name) == [token |-> name, value |-> <<>>]
Space == [token |-> "space", value |-> <<>>]
\* A character that begins no JSON token.
Junk == [token |-> "junk", value |-> <<>>]

SyntaxError == [kind |-> "SyntaxError"]

\* The texts of the parts, with a comma (and the indentation) between them.
JoinedBy(parts, indent) ==
  Flatten([i \in 1..Len(parts) |->
             (IF i > 1 THEN <<Punctuator(",")>> \o indent ELSE <<>>)
               \o parts[i]])

\* JSON.stringify(value, null, space): indent is the white space written
\* inside a non-empty array or object, none when space is not given.
RECURSIVE JSONstringify(_, _)
JSONstringify(value, indent) ==
  CASE value.type = "string" -> <<StringToken(value.value)>>
    [] value.type = "number" -> <<NumberToken(value.value)>>
    [] value.type = "boolean" ->
         <<LiteralToken(IF value.value THEN "true" ELSE "false")>>
    [] value.type = "array" ->
         IF Len(value.value) = 0
         THEN <<Punctuator("["), Punctuator("]")>>
         ELSE <<Punctuator("[")>> \o indent
              \o JoinedBy([i \in 1..Len(value.value) |->
                           IF value.value[i].type = "undefined"
                           THEN <<LiteralToken("null")>>
                           ELSE JSONstringify(value.value[i], indent)],
                        indent)
              \o indent \o <<Punctuator("]")>>
    [] value.type = "object" ->
         LET isWritten(p) == p.value.type # "undefined"
             written == SelectSeq(value.value, isWritten)
         IN IF Len(written) = 0
            THEN <<Punctuator("{"), Punctuator("}")>>
            ELSE <<Punctuator("{")>> \o indent
                 \o JoinedBy([i \in 1..Len(written) |->
                              <<StringToken(written[i].key), Punctuator(":")>>
                                \o indent
                                \o JSONstringify(written[i].value, indent)],
                           indent)
                 \o indent \o <<Punctuator("}")>>
    [] OTHER -> <<LiteralToken("null")>>

\* The place of the first token from `at' that is no white space.
RECURSIVE skipSpace(_, _)
skipSpace(text, at) ==
  IF at <= Len(text) /\ text[at].token = "space"
  THEN skipSpace(text, at + 1) ELSE at

\* A value and the place after it, or no value.
Parsed(value, next) == [ok |-> TRUE, value |-> value, next |-> next]
NotParsed == [ok |-> FALSE, value |-> JsUndefined, next |-> 0]

\* The token after the white space from `at' is of the kind c.
NextIs(text, at, c) ==
  skipSpace(text, at) <= Len(text) /\ text[skipSpace(text, at)].token = c

AfterNext(text, at) == skipSpace(text, at) + 1

RECURSIVE parseValue(_, _), parseElements(_, _, _), parseMembers(_, _, _)
parseValue(text, at) ==
  LET t == skipSpace(text, at)
  IN IF t > Len(text) THEN NotParsed
     ELSE CASE text[t].token = "string" ->
                 Parsed(JsString(text[t].value), t + 1)
            [] text[t].token = "number" ->
                 Parsed(JsNumberOf(text[t].value), t + 1)
            [] text[t].token = "true" -> Parsed(JsBoolean(TRUE), t + 1)
            [] text[t].token = "false" -> Parsed(JsBoolean(FALSE), t + 1)
            [] text[t].token = "null" -> Parsed(JsNull, t + 1)
            [] text[t].token = "[" ->
                 IF NextIs(text, t + 1, "]")
                 THEN Parsed(JsArray(<<>>), AfterNext(text, t + 1))
                 ELSE parseElements(text, t + 1, <<>>)
            [] text[t].token = "{" ->
                 IF NextIs(text, t + 1, "}")
                 THEN Parsed(JsObjectOf(<<>>), AfterNext(text, t + 1))
                 ELSE parseMembers(text, t + 1, <<>>)
            [] OTHER -> NotParsed

\* The elements of an array from the one that begins at `at'.
parseElements(text, at, items) ==
  LET element == parseValue(text, at)
  IN IF ~element.ok THEN NotParsed
     ELSE IF NextIs(text, element.next, ",")
     THEN parseElements(text, AfterNext(text, element.next),
                        Append(items, element.value))
     ELSE IF NextIs(text, element.next, "]")
     THEN Parsed(JsArray(Append(items, element.value)),
                 AfterNext(text, element.next))
     ELSE NotParsed

\* The members of an object from the one that begins at `at'; a name that
\* occurs again takes the later value.
parseMembers(text, at, properties) ==
  IF ~NextIs(text, at, "string") \/ ~NextIs(text, AfterNext(text, at), ":")
  THEN NotParsed
  ELSE LET key == text[skipSpace(text, at)].value
           member == parseValue(text, AfterNext(text, AfterNext(text, at)))
       IN IF ~member.ok THEN NotParsed
          ELSE IF NextIs(text, member.next, ",")
          THEN parseMembers(text, AfterNext(text, member.next),
                            MapSet(properties, key, member.value))
          ELSE IF NextIs(text, member.next, "}")
          THEN Parsed(JsObjectOf(MapSet(properties, key, member.value)),
                      AfterNext(text, member.next))
          ELSE NotParsed

\* JSON.parse(text): the value, or the SyntaxError it throws.
JSONparse(text) ==
  LET parsed == parseValue(text, 1)
  IN IF parsed.ok /\ skipSpace(text, parsed.next) > Len(text)
     THEN parsed.value
     ELSE SyntaxError

(***************************************************************************)
(* MindMapStorage.  localStorage is the Map of its items; the stored lists  *)
(* and the imported arrays hold objects.                                    *)
(***************************************************************************)
STORAGE_KEY == "ai-thought-maps"

getItem(storage, key) ==
  IF MapHas(storage, key) THEN JsString(MapGet(storage, key)) ELSE JsNull

setItem(storage, key, text) == MapSet(storage, key, text)

removeItem(storage, key) ==
  IF ~MapHas(storage, key) THEN storage
  ELSE SubSeq(storage, 1, MapIndex(storage, key) - 1)
       \o SubSeq(storage, MapIndex(storage, key) + 1, Len(storage))

\* A call returns a value or throws an error; the storage after it.
Returned(storage, value) ==
  [storage |-> storage, completion |-> "return", value |-> value]

Threw(storage, error) ==
  [storage |-> storage, completion |-> "throw", value |-> error]

\* item.id
idOf(item) ==
  IF item.type = "object" /\ MapHas(item.value, "id")
  THEN MapGet(item.value, "id") ELSE JsUndefined

getAll(storage) ==
  LET data == getItem(storage, STORAGE_KEY)
  IN IF ~Truthy(data) THEN JsArray(<<>>)
     ELSE LET parsed == JSONparse(data.value)
          IN IF parsed = SyntaxError THEN JsArray(<<>>) ELSE parsed

\* new Date(time).toISOString() and `${Date.now()}-${random}`
toISOString(time) == <<"T", ToString(time)>>

generateId(time, random) == <<ToString(time), "-">> \o random

SavedMindMap(id, mm, userInput, createdAt, updatedAt) ==
  JsObjectOf(<<[key |-> "id", value |-> JsString(id)],
               [key |-> "mindMap", value |-> mm],
               [key |-> "userInput", value |-> JsString(userInput)],
               [key |-> "createdAt", value |-> JsString(createdAt)],
               [key |-> "updatedAt", value |-> JsString(updatedAt)]>>)

\* save(mindMap, userInput), with the id and the dates it draws and
\* whether setItem throws (the storage is full).  The clock is read once.
save(storage, mm, userInput, id, createdAt, updatedAt, full) ==
  LET saved == SavedMindMap(id, mm, userInput, createdAt, updatedAt)
      all == JsArray(<<saved>> \o getAll(storage).value)
  IN IF full
     THEN Threw(storage,
                Error("Failed to save mind map. Storage might be full."))
     ELSE Returned(setItem(storage, STORAGE_KEY, JSONstringify(all, <<>>)),
                   saved)

\* A successful update writes a new record in place of the old one.
update_replacing(storage, id, mm, userInput, updatedAt, full) ==
  LET all == getAll(storage).value
      found == {i \in 1..Len(all) : idOf(all[i]) = JsString(id)}
  IN IF found = {} THEN Returned(storage, JsNull)
     ELSE LET index == CHOOSE i \in found : \A k \in found : i <= k
              item == SavedMindMap(id, mm, userInput, updatedAt, updatedAt)
              updated == JsArray([all EXCEPT ![index] = item])
          IN IF full
             THEN Threw(storage, Error("Failed to update mind map."))
             ELSE Returned(setItem(storage, STORAGE_KEY,
                                   JSONstringify(updated, <<>>)),
                           item)

update(storage, id, mm, userInput, updatedAt, full) ==
  LET all == getAll(storage).value
      found == {i \in 1..Len(all) : idOf(all[i]) = JsString(id)}
  IN IF found = {} THEN Returned(storage, JsNull)
     ELSE LET index == CHOOSE i \in found : \A k \in found : i <= k
              item ==
                JsObjectOf(MapSet(MapSet(MapSet(all[index].value,
                                                "mindMap", mm),
                                         "userInput", JsString(userInput)),
                                  "updatedAt", JsString(updatedAt)))
              updated == JsArray([all EXCEPT ![index] = item])
          IN IF full
             THEN Threw(storage, Error("Failed to update mind map."))
             ELSE Returned(setItem(storage, STORAGE_KEY,
                                   JSONstringify(updated, <<>>)),
                           item)

getById(storage, id) ==
  LET all == getAll(storage).value
      found == {i \in 1..Len(all) : idOf(all[i]) = JsString(id)}
  IN IF found = {} THEN JsNull
     ELSE all[CHOOSE i \in found : \A k \in found : i <= k]

delete(storage, id, full) ==
  LET all == getAll(storage).value
      kept(item) == idOf(item) # JsString(id)
      filtered == SelectSeq(all, kept)
  IN IF Len(filtered) = Len(all) THEN Returned(storage, JsBoolean(FALSE))
     ELSE IF full THEN Threw(storage, Error("Failed to delete mind map."))
     ELSE Returned(setItem(storage, STORAGE_KEY,
                           JSONstringify(JsArray(filtered), <<>>)),
                   JsBoolean(TRUE))

deleteAll(storage) == Returned(removeItem(storage, STORAGE_KEY), JsUndefined)

exportAsJSON(storage) == JSONstringify(getAll(storage), <<Space>>)

ImportError == Error("Failed to import mind maps. Invalid JSON format.")

\* An imported item is added unless an item imported before it has its id.
importFromJSON_onceEach(storage, jsonString, full) ==
  LET imported == JSONparse(jsonString)
  IN IF imported = SyntaxError THEN Threw(storage, ImportError)
     ELSE IF imported.type # "array" THEN Threw(storage, ImportError)
     ELSE LET existing == getAll(storage).value
              isNew(at) ==
                /\ \A e \in 1..Len(existing) :
                     idOf(existing[e]) # idOf(imported.value[at])
                /\ \A e \in 1..(at - 1) :
                     idOf(imported.value[e]) # idOf(imported.value[at])
              places == SelectSeq([i \in 1..Len(imported.value) |-> i], isNew)
              added == [i \in 1..Len(places) |-> imported.value[places[i]]]
              merged == JsArray(existing \o added)
          IN IF full THEN Threw(storage, ImportError)
             ELSE Returned(setItem(storage, STORAGE_KEY,
                                   JSONstringify(merged, <<>>)),
                           JsNumberOf(Len(added)))

importFromJSON(storage, jsonString, full) ==
  LET imported == JSONparse(jsonString)
  IN IF imported = SyntaxError THEN Threw(storage, ImportError)
     ELSE IF imported.type # "array" THEN Threw(storage, ImportError)
     ELSE LET existing == getAll(storage).value
              isNew(item) ==
                \A e \in 1..Len(existing) : idOf(existing[e]) # idOf(item)
              added == SelectSeq(imported.value, isNew)
              merged == JsArray(existing \o added)
          IN IF full THEN Threw(storage, ImportError)
             ELSE Returned(setItem(storage, STORAGE_KEY,
                                   JSONstringify(merged, <<>>)),
                           JsNumberOf(Len(added)))

(***************************************************************************)
(* The callers of MindMapStorage.                                          *)
(***************************************************************************)
MaxStored == 2

ClockTimes == {1, 2}
RandomTexts == {<<"a">>}
\* The mind map that is saved and the one that replaces it.
MindMapValue(centralIdea) ==
  JsObjectOf(<<[key |-> "centralIdea", value |-> JsString(centralIdea)],
               [key |-> "branches", value |-> JsArray(<<>>)]>>)
SavedMindMaps == {MindMapValue(<<"m">>)}
UpdatedMindMaps == {MindMapValue(<<"n">>)}
StoredInputs == {<<"u">>}
StoredIds ==
  {generateId(time, random) : time \in ClockTimes, random \in RandomTexts}
    \cup {<<"k">>}

\* Records of another store: two that share the id k.
ImportedRecords ==
  {SavedMindMap(<<"k">>, JsObjectOf(<<>>), <<"v">>,
                toISOString(1), toISOString(1)),
   SavedMindMap(<<"k">>, JsObjectOf(<<>>), <<"w">>,
                toISOString(1), toISOString(2))}

\* A record with the id that save draws at time 1, and one of the records
\* above.
MixedRecords ==
  <<SavedMindMap(generateId(1, <<"a">>), JsObjectOf(<<>>), <<"v">>,
                 toISOString(1), toISOString(1)),
    SavedMindMap(<<"k">>, JsObjectOf(<<>>), <<"v">>,
                 toISOString(1), toISOString(1))>>

\* Texts that JSON.parse does not take, texts of values that are no
\* arrays, the texts of the arrays of at most two imported records, and
\* the text of the mixed records.
ImportedTexts ==
  {<<>>, <<Junk>>, <<Punctuator("["), Punctuator("{")>>,
   <<Punctuator("{"), Punctuator("}")>>, <<LiteralToken("null")>>,
   <<StringToken(<<"k">>)>>}
    \cup {JSONstringify(JsArray(items), <<>>) :
            items \in UNION {[1..n -> ImportedRecords] : n \in 0..2}
                        \cup {MixedRecords}}

StorageCall(op, args, outcome) ==
  /\ call = NoCall
  /\ Len(getAll(outcome.storage).value) <= MaxStored
  /\ call' = [op |-> op, args |-> args]
  /\ ret' = [completion |-> outcome.completion, value |-> outcome.value]
  /\ localStorage' = outcome.storage
  /\ UNCHANGED <<mindMap, nodes, edges, adjacencyList, embeddings, calls,
                 panel>>

CallSave ==
  \E mm \in SavedMindMaps, userInput \in StoredInputs, now \in ClockTimes,
     random \in RandomTexts, full \in BOOLEAN :
    StorageCall("save", <<mm, userInput, generateId(now, random), full>>,
                save(localStorage, mm, userInput, generateId(now, random),
                     toISOString(now), toISOString(now), full))

CallUpdate ==
  \E id \in StoredIds, mm \in UpdatedMindMaps, userInput \in StoredInputs,
     updated \in ClockTimes, full \in BOOLEAN :
    StorageCall("update", <<id, mm, userInput, toISOString(updated), full>>,
                update(localStorage, id, mm, userInput, toISOString(updated),
                       full))

CallGetById ==
  \E id \in StoredIds :
    StorageCall("getById", <<id>>,
                Returned(localStorage, getById(localStorage, id)))

CallDelete ==
  \E id \in StoredIds, full \in BOOLEAN :
    StorageCall("delete", <<id, full>>, delete(localStorage, id, full))

CallDeleteAll == StorageCall("deleteAll", <<>>, deleteAll(localStorage))

CallExportAsJSON ==
  StorageCall("exportAsJSON", <<>>,
              Returned(localStorage, JsString(exportAsJSON(localStorage))))

CallImportFromJSON ==
  \E jsonString \in ImportedTexts \cup {exportAsJSON(localStorage)},
     full \in BOOLEAN :
    StorageCall("importFromJSON", <<jsonString, full>>,
                importFromJSON(localStorage, jsonString, full))

InitStorage ==
  /\ mindMap = MindMapOf(<<>>, <<>>)
  /\ nodes = <<>>
  /\ edges = <<>>
  /\ adjacencyList = <<>>
  /\ embeddings = Null
  /\ NoPage
  /\ calls = <<>>
  /\ call = NoCall
  /\ ret = Null

NextStorage ==
  \/ CallSave
  \/ CallUpdate
  \/ CallGetById
  \/ CallDelete
  \/ CallDeleteAll
  \/ CallExportAsJSON
  \/ CallImportFromJSON
  \/ TakeResult

SpecStorage == InitStorage /\ [][NextStorage]_vars

(***************************************************************************)
(* InsightsPanel.  calls is the list of the runs of analyzeMap in the      *)
(* order of their start; a run awaits the promise of analyze or has        *)
(* settled.                                                                *)
(***************************************************************************)
MaxRuns == 4

\* Array.prototype.sort((a, b) => b.score - a.score): stable.
RECURSIVE insertByScore(_, _)
insertByScore(sorted, x) ==
  IF Len(sorted) = 0 THEN <<x>>
  ELSE IF ~NumLt(sorted[Len(sorted)].score, x.score)
  THEN Append(sorted, x)
  ELSE Append(insertByScore(SubSeq(sorted, 1, Len(sorted) - 1), x),
              sorted[Len(sorted)])

RECURSIVE sortByScore(_)
sortByScore(s) ==
  IF Len(s) = 0 THEN <<>>
  ELSE insertByScore(sortByScore(SubSeq(s, 1, Len(s) - 1)), s[Len(s)])

\* Array.prototype.slice(0, end)
slice(s, end) == SubSeq(s, 1, IF Len(s) < end THEN Len(s) ELSE end)

\* The five concepts of the highest betweenness plus degree.
centralityScores(g) ==
  LET scored(betweenness, degree) ==
        [i \in 1..Len(betweenness) |->
           [concept |-> getNode(g, betweenness[i].key).label,
            score |-> NumAdd(betweenness[i].value,
                             Num(IF MapHas(degree, betweenness[i].key)
                                 THEN MapGet(degree, betweenness[i].key)
                                 ELSE 0))]]
  IN slice(sortByScore(scored(calculateBetweennessCentrality(g),
                              calculateDegreeCentrality(g))), 5)

\* The clusters of identifyClusters are a grouping, by the labels of
\* findClusters, of the nodes of the graph: they are kept as these nodes,
\* and the shuffles of findClusters are not followed here.
identifyClusters(g) == [clustered |-> MapKeys(g.nodes)]

\* The promise of analyze(useAI) on a new SemanticAnalyzer of the map,
\* given the answer to its fetch.
analyze(mm, g, ai, response) ==
  LET settled(result) ==
        IF result.state = "rejected" THEN result
        ELSE [state |-> "fulfilled",
              clusters |-> identifyClusters(g),
              suggestedConnections |-> result.suggestedConnections]
  IN settled(analysisOf(mm, g, IF ai
                               THEN generateEmbeddings(Null, mm, response)
                               ELSE Null))

\* A run: what started it, the map and the useAI of its render, the state
\* of the promise of analyze, and whether the run started while an earlier
\* one awaited its promise.
Run(trigger, mm, ai, state) ==
  [trigger |-> trigger, mindMap |-> mm, useAI |-> ai, state |-> state,
   overlaps |-> \E k \in 1..Len(calls) : calls[k].state = "pending"]

\* analyzeMap after its await: the results are set if the promise was
\* fulfilled, and isAnalyzing is reset.
AnalyzeMapEnds(result) ==
  /\ isAnalyzing' = FALSE
  /\ IF result.state = "fulfilled"
     THEN /\ clusters' = slice(<<result.clusters>>, 5)
          /\ suggestions' = slice(result.suggestedConnections, 10)
     ELSE UNCHANGED <<clusters, suggestions>>

\* Two maps of two branches whose titles share one word of two.
PanelMaps ==
  {MindMapOf(<<"m">>, <<Branch(<<"a", " ", "b">>, <<>>),
                        Branch(<<"a", " ", c>>, <<>>)>>) : c \in {"c", "d"}}

\* The answers to the fetch of a run: none, or one vector for each of the
\* n concepts, or too few vectors.
PanelResponses(n) ==
  {Response("rejected", FALSE, "none", FALSE, <<>>),
   Response("fulfilled", TRUE, "object", TRUE, AlternatingList(n)),
   Response("fulfilled", TRUE, "object", TRUE, <<>>)}

Tabs == {"overview", "quality", "connections", "clusters"}

\* analyzeMap, as defined by a render with the map mm and the state ai of
\* useAI, up to its await.  analyze(false) awaits nothing: its promise is
\* settled when it returns, and analyzeMap resumes before any other event.
AnalyzeMapBegins(trigger, mm, ai) ==
  LET Awaits(graph, semanticResults) ==
        /\ consistencyReport' = check(mm, graph)
        /\ centralConcepts' = centralityScores(graph)
        /\ calls' = Append(calls,
                            Run(trigger, mm, ai,
                                IF ai THEN "pending"
                                ELSE semanticResults.state))
        /\ IF ai
           THEN /\ isAnalyzing' = TRUE
                /\ UNCHANGED <<clusters, suggestions>>
           ELSE AnalyzeMapEnds(semanticResults)
  IN /\ Len(calls) < MaxRuns
     /\ Awaits(buildGraph(mm), analyze(mm, buildGraph(mm), FALSE, NoResponse))

\* useEffect(() => { analyzeMap() }, [mindMap]) after the first render.
Mounted ==
  /\ Len(calls) = 0
  /\ AnalyzeMapBegins("effect", mindMap, useAI)
  /\ UNCHANGED <<mindMap, nodes, edges, adjacencyList, embeddings, call, ret,
                 localStorage, activeTab, useAI>>

\* The parent renders the panel with another map, and the effect runs.
MindMapChanges ==
  \E mm \in PanelMaps :
    /\ Len(calls) > 0
    /\ mm # mindMap
    /\ mindMap' = mm
    /\ AnalyzeMapBegins("effect", mm, useAI)
    /\ UNCHANGED <<nodes, edges, adjacencyList, embeddings, call, ret,
                   localStorage, activeTab, useAI>>

SelectTab ==
  \E tab \in Tabs :
    /\ Len(calls) > 0
    /\ activeTab' = tab
    /\ UNCHANGED <<mindMap, nodes, edges, adjacencyList, embeddings, calls,
                   call, ret, localStorage, isAnalyzing, useAI,
                   consistencyReport, centralConcepts, clusters,
                   suggestions>>

\* onChange of the check box of the connections tab, when the box gets
\* checked: analyzeMap is the function of the render that drew the box,
\* with its useAI.
UseAIChecked ==
  /\ Len(calls) > 0
  /\ activeTab = "connections"
  /\ ~useAI
  /\ useAI' = TRUE
  /\ AnalyzeMapBegins("onChange", mindMap, useAI)
  /\ UNCHANGED <<mindMap, nodes, edges, adjacencyList, embeddings, call, ret,
                 localStorage, activeTab>>

\* onChange when the box gets unchecked.
UseAIUnchecked ==
  /\ Len(calls) > 0
  /\ activeTab = "connections"
  /\ useAI
  /\ useAI' = FALSE
  /\ UNCHANGED <<mindMap, nodes, edges, adjacencyList, embeddings, calls,
                 call, ret, localStorage, activeTab, isAnalyzing,
                 consistencyReport, centralConcepts, clusters, suggestions>>

\* The promise of analyze(true) of the run k settles and analyzeMap resumes.
AnalyzeSettles(k) ==
  /\ calls[k].state = "pending"
  /\ \E response \in PanelResponses(Len(getAllConcepts(calls[k].mindMap))) :
       LET Resumes(result) ==
             /\ AnalyzeMapEnds(result)
             /\ calls' = [calls EXCEPT ![k].state = result.state]
       IN Resumes(analyze(calls[k].mindMap, buildGraph(calls[k].mindMap),
                          TRUE, response))
  /\ UNCHANGED <<mindMap, nodes, edges, adjacencyList, embeddings, call, ret,
                 localStorage, activeTab, useAI, consistencyReport,
                 centralConcepts>>

InitPanel ==
  /\ mindMap \in PanelMaps
  /\ nodes = <<>>
  /\ edges = <<>>
  /\ adjacencyList = <<>>
  /\ embeddings = Null
  /\ NoPage
  /\ calls = <<>>
  /\ call = NoCall
  /\ ret = Null

NextPanel ==
  \/ Mounted
  \/ MindMapChanges
  \/ SelectTab
  \/ UseAIChecked
  \/ UseAIUnchecked
  \/ \E k \in 1..Len(calls) : AnalyzeSettles(k)

SpecPanel == InitPanel /\ [][NextPanel]_vars

(***************************************************************************)
(* Properties of the Concept Graph.                                        *)
(***************************************************************************)
RECURSIVE SumSubs(_, _)
SumSubs(mm, i) ==
  IF i = 0 THEN 0 ELSE Len(mm.branches[i].subBranches) + SumSubs(mm, i - 1)

BranchCount == Len(mindMap.branches)
SubTotal == SumSubs(mindMap, BranchCount)
Present(id) == MapHas(nodes, id)

\* C1: a graph built from a mind map of B branches with s_1..s_B
\* sub-branches has 1 + B + sum(s_i) nodes, all of distinct ids, and
\* B + sum(s_i) edges.
C1_NodeAndEdgeCount ==
  /\ Len(nodes) = 1 + BranchCount + SubTotal
  /\ Cardinality(Range(MapKeys(nodes))) = Len(nodes)
  /\ Len(edges) = BranchCount + SubTotal

C1_Witness ==
  /\ BranchCount = 2
  /\ Len(mindMap.branches[1].subBranches) = 2
  /\ Len(mindMap.branches[2].subBranches) = 1
  /\ Len(nodes) = 6
  /\ Len(edges) = 5

\* The distance the tree topology gives to the pairs C2 is about; 0 for
\* the pairs it says nothing about.
TreeDistance(na, nb) ==
  IF na.type = "subbranch" /\ nb.type = "branch"
     /\ na.branchIndex = nb.branchIndex THEN 1
  ELSE IF na.type = "branch" /\ nb.type = "subbranch"
     /\ na.branchIndex = nb.branchIndex THEN 1
  ELSE IF na.type = "subbranch" /\ nb.type = "subbranch" /\ na.id # nb.id
     THEN (IF na.branchIndex = nb.branchIndex THEN 2 ELSE 4)
  ELSE IF na.type = "branch" /\ nb.type = "branch" /\ na.id # nb.id THEN 2
  ELSE 0

\* C2: findShortestPath gives distance 1 between a sub-branch and its own
\* branch, 2 between two sub-branches of one branch and between two
\* branches, 4 between sub-branches of different branches; the strength is
\* 1/distance and the path has distance + 1 nodes, from start to end.
C2_TreeDistances ==
  (call.op = "findShortestPath" /\ Present(call.args[1]) /\ Present(call.args[2]))
  => LET na == MapGet(nodes, call.args[1])
         nb == MapGet(nodes, call.args[2])
         dist == TreeDistance(na, nb)
     IN dist > 0 =>
          /\ ret # Null
          /\ ret.distance = dist
          /\ ret.strength = Rat(1, dist)
          /\ Len(ret.nodes) = dist + 1
          /\ ret.nodes[1] = na
          /\ ret.nodes[dist + 1] = nb

C2_Witness ==
  /\ call.op = "findShortestPath"
  /\ call.args = <<"branch-0-sub-1", "branch-1-sub-0">>
  /\ ret # Null
  /\ ret.distance = 4
  /\ ret.strength = Rat(1, 4)

\* C3: the distance from a node of the graph to itself is 0, and the
\* shortest path from it to itself is the one-node path.
C3_SelfDistance ==
  /\ (call.op = "calculateDistance" /\ call.args[1] = call.args[2]
      /\ Present(call.args[1])) => ret = Num(0)
  /\ (call.op = "findShortestPath" /\ call.args[1] = call.args[2]
      /\ Present(call.args[1]))
     => /\ ret # Null
        /\ ret.nodes = <<MapGet(nodes, call.args[1])>>
        /\ ret.distance = 0

C3_Witness ==
  /\ call.op = "calculateDistance"
  /\ call.args = <<"branch-1-sub-1", "branch-1-sub-1">>
  /\ ret = Num(0)

\* C4: calculateDegreeCentrality has one entry per node: B for the
\* central node, 1 + its sub-branch count for a branch node, 1 for a
\* sub-branch node.
C4_DegreeCentrality ==
  call.op = "calculateDegreeCentrality" =>
    /\ MapKeys(ret) = MapKeys(nodes)
    /\ \A i \in 1..Len(ret) :
         LET node == MapGet(nodes, ret[i].key)
         IN ret[i].value =
              (IF node.type = "central" THEN BranchCount
               ELSE IF node.type = "branch"
               THEN 1 + Len(mindMap.branches[node.branchIndex + 1].subBranches)
               ELSE 1)

C4_Witness ==
  /\ call.op = "calculateDegreeCentrality"
  /\ BranchCount = 2
  /\ MapGet(ret, "central") = 2
  /\ MapGet(ret, "branch-0") = 3
  /\ MapGet(ret, "branch-1") = 1

\* C5: a query over an id that is not in the graph returns none or empty:
\* findShortestPath none, findAllPaths the empty sequence, calculateDistance
\* +infinity, getNode none, getNeighbors the empty sequence.
C5_UnknownIds ==
  /\ (call.op \in {"findShortestPath", "findAllPaths", "calculateDistance"}
      /\ (~Present(call.args[1]) \/ ~Present(call.args[2])))
     => ret = (IF call.op = "findShortestPath" THEN Null
               ELSE IF call.op = "findAllPaths" THEN <<>>
               ELSE Infinity)
  /\ (call.op = "getNode" /\ ~Present(call.args[1])) => ret = UndefinedNode
  /\ (call.op = "getNeighbors" /\ ~Present(call.args[1])) => ret = <<>>

C5_Witness ==
  /\ call.op = "findShortestPath"
  /\ call.args = <<"missing", "missing">>
  /\ BranchCount = 2
  /\ ret = Null

\* C6 as stated: the graph of the Learn Guitar example has 7 nodes and
\* 4 edges.
C6_AsStated ==
  mindMap = LearnGuitar => (Len(nodes) = 7 /\ Len(edges) = 4)

\* C6, amended: the graph of the Learn Guitar example has 7 nodes and
\* 6 edges (one per branch and one per sub-branch).
C6_LearnGuitar ==
  mindMap = LearnGuitar => (Len(nodes) = 7 /\ Len(edges) = 6)

C6_Witness ==
  /\ mindMap = LearnGuitar
  /\ call.op = "getAllNodes"
  /\ Len(ret) = 7

(***************************************************************************)
(* Properties of the Consistency Checker.                                  *)
(***************************************************************************)
CountSeverity(issues, severity) ==
  Cardinality({i \in 1..Len(issues) : issues[i].severity = severity})

Clamp(x) == IF x < 0 THEN 0 ELSE IF x > 100 THEN 100 ELSE x

ScoreFormula(issues, statistics) ==
  Num(Clamp(100 - 10 * CountSeverity(issues, "high")
                - 5 * CountSeverity(issues, "medium")
                - 2 * CountSeverity(issues, "low")
                + (IF IsFinite(statistics.balanceScore)
                      /\ 10 * statistics.balanceScore.n
                           > 8 * statistics.balanceScore.d
                   THEN 5 ELSE 0)))

\* C7: calculateScore returns 100 - 10h - 5m - 2l, plus 5 if balanceScore
\* > 0.8, clamped into [0,100]; so does the score of every report of
\* check(), over the issues and statistics of that report.
C7_ScoreClamped ==
  /\ call.op = "calculateScore"
       => ret = ScoreFormula(call.args[1], call.args[2])
  /\ call.op = "check"
       => /\ ret.score = ScoreFormula(ret.issues, ret.statistics)
          /\ IsFinite(ret.score)
          /\ ret.score.d = 1
          /\ ret.score.n \in 0..100

C7_Witness ==
  /\ call.op = "check"
  /\ 10 * CountSeverity(ret.issues, "high") > 100
  /\ ret.score = Num(0)

\* C8: the statistics of every report of check() are well-defined numbers:
\* avgBranchDepth is finite and balanceScore lies in [0,1], also for zero
\* branches and for branches without sub-branches.
C8_StatisticsWellDefined ==
  call.op = "check" =>
    /\ IsFinite(ret.statistics.avgBranchDepth)
    /\ IsFinite(ret.statistics.balanceScore)
    /\ ~NumLt(ret.statistics.balanceScore, Num(0))
    /\ ~NumGt(ret.statistics.balanceScore, Num(1))

(***************************************************************************)
(* Properties of the Semantic Analyzer.                                    *)
(***************************************************************************)
ConceptCount == Len(getAllConcepts(mindMap))

\* The response carries no embeddings at all.
NoEmbeddings(response) ==
  \/ response.settled = "rejected"
  \/ ~response.ok
  \/ response.json # "object"
  \/ ~response.hasEmbeddings

\* The response carries no usable list of embeddings.
ProviderFailed(response) ==
  \/ NoEmbeddings(response)
  \/ Len(response.embeddings) < ConceptCount

AllByText(result) ==
  /\ result.state = "fulfilled"
  /\ \A i \in 1..Len(result.similarities) :
       result.similarities[i].method = "text"

\* C9: an analyze(true) whose fetch is rejected, answers a non-success
\* status, or answers a body without a usable list of embeddings (none, or
\* fewer than there are concepts) is fulfilled with similarities that are
\* all computed by text similarity.
C9_ProviderFailureNotSurfaced ==
  (call.op = "analyze" /\ call.args[1] /\ ProviderFailed(call.args[2]))
    => AllByText(ret)

Quiescent == \A k \in 1..MaxInFlight : calls[k].pc = "idle"

\* this.embeddings is null or holds one embedding per concept.
NoneOrComplete ==
  \/ embeddings = Null
  \/ Len(embeddings.entries) = ConceptCount

\* C10: in a sequence of analyze calls on one instance (no other call in
\* flight), an analyze(false), and an analyze(true) whose own fetch brings
\* no embeddings, computes its similarities by text similarity, whatever
\* embeddings (none, or one per concept) the earlier analyze calls obtained.
C10_EmbeddingsOfOneCallOnly ==
  (/\ call.op = "analyze"
   /\ Quiescent
   /\ NoneOrComplete
   /\ (~call.args[1] \/ NoEmbeddings(call.args[2])))
    => AllByText(ret)


(***************************************************************************)
(* Properties of the similarity functions.                                 *)
(***************************************************************************)
\* C11: the text similarity of a nonempty text with itself is 1, also for a
\* text of a single character.
C11_SelfSimilarityIsOne ==
  (/\ call.op = "textSimilarity"
   /\ call.args[1] = call.args[2]
   /\ Len(call.args[1]) > 0)
    => ret = Num(1)

AllZero(vec) == \A i \in 1..Len(vec) : vec[i] = 0

\* C12: the cosine similarity of two vectors of equal length of which one
\* is all-zero is exactly 0, not NaN.
C12_ZeroVectorGivesZero ==
  (/\ call.op = "cosineSimilarity"
   /\ (AllZero(call.args[1]) \/ AllZero(call.args[2])))
    => ret = Num(0)

C12_Witness ==
  /\ call.op = "cosineSimilarity"
  /\ call.args[1] = <<0, 0>>
  /\ call.args[2] = <<1, -1>>
  /\ ret = Num(0)


(***************************************************************************)
(* Properties of generateMindMap.                                          *)
(***************************************************************************)
Blank(text) == \A i \in 1..Len(text) : text[i] \in WhiteSpace

KeyAbsent(apiKey) ==
  apiKey.type = "undefined" \/ (apiKey.type = "string" /\ apiKey.value = <<>>)

LacksStructure(parsed) ==
  \/ parsed.type # "object"
  \/ parsed.centralIdea.type = "undefined"
  \/ parsed.branches.type # "array"

\* The answers for which C13 claims an error.
UpstreamFailed(response) ==
  \/ ~response.ok
  \/ response.body # "json"
  \/ (response.data = "text" /\ ~response.parses)
  \/ (response.data = "text" /\ response.parses
        /\ LacksStructure(response.parsed))

\* C13: generateMindMap is rejected with an error, and returns no MindMap,
\* when the topic is blank, the key is absent, the upstream status is not a
\* success, the response text is not JSON, or the parsed value lacks a
\* centralIdea or an array of branches; for a blank topic or an absent key
\* it has sent no request upstream.
C13_GenerateMindMapFails ==
  call.op = "generateMindMap" =>
    LET userInput == call.args[1]
        apiKey == call.args[2]
        response == call.args[3]
        requests == call.args[4]
    IN /\ (Blank(userInput) \/ KeyAbsent(apiKey))
            => (ret.state = "rejected" /\ requests = 0)
       /\ (requests > 0 /\ UpstreamFailed(response))
            => ret.state = "rejected"

C13_Witness ==
  /\ call.op = "generateMindMap"
  /\ call.args[4] = 1
  /\ call.args[3].parses
  /\ call.args[3].parsed.type = "object"
  /\ call.args[3].parsed.centralIdea.type = "string"
  /\ call.args[3].parsed.branches.type = "undefined"
  /\ ret.state = "rejected"


(***************************************************************************)
(* Further properties of the Concept Graph.                                *)
(***************************************************************************)
\* C14: for two distinct existing ids and a depth bound of at least 6,
\* findAllPaths returns exactly one path, of the node sequence and the
\* distance of the path findShortestPath returns.
C14_AllPathsIsShortestPath ==
  (/\ call.op = "findAllPaths"
   /\ Present(call.args[1])
   /\ Present(call.args[2])
   /\ call.args[1] # call.args[2]
   /\ call.args[3] >= 6)
    => LET shortest == findShortestPath(G, call.args[1], call.args[2])
       IN /\ Len(ret) = 1
          /\ shortest # Null
          /\ ret[1].nodes = shortest.nodes
          /\ ret[1].distance = shortest.distance

C14_Witness ==
  /\ call.op = "findAllPaths"
  /\ call.args[3] = 6
  /\ Len(ret) = 1
  /\ ret[1].distance = 4
  /\ ret[1].nodes[1].id = "branch-1-sub-0"
  /\ ret[1].nodes[5].id = "branch-0-sub-1"


(***************************************************************************)
(* Properties of findClusters.                                             *)
(***************************************************************************)
NodeIds == Range(MapKeys(nodes))

\* The labels of the neighbours of a node, in the order of its adjacency
\* set.
NeighbourLabels(labels, node) ==
  LET neighbors == neighborsOrEmpty(G, node)
  IN [i \in 1..Len(neighbors) |-> MapGet(labels, neighbors[i])]

Times(seq, x) == Cardinality({i \in 1..Len(seq) : seq[i] = x})

\* The label the update rule selects: the most frequent one, and among the
\* most frequent ones the one met first.
Selected(seq) ==
  LET most == {i \in 1..Len(seq) :
                \A j \in 1..Len(seq) : Times(seq, seq[j]) <= Times(seq, seq[i])}
  IN seq[Min(most)]

\* C15: when findClusters returns after a round in which no label changed,
\* every node that has a neighbour holds the label the rule selects among
\* the labels of its neighbours (so a node whose neighbours all share its
\* label keeps it), and the update of any node leaves the labels as they
\* are.
C15_ConvergedLabelsAreStable ==
  (call.op = "findClusters" /\ ~call.args[2]) =>
    \A node \in NodeIds :
      /\ visit(G, ret.entries, FALSE, node)
           = [labels |-> ret.entries, changed |-> FALSE]
      /\ NeighbourLabels(ret.entries, node) # <<>>
           => MapGet(ret.entries, node)
                = Selected(NeighbourLabels(ret.entries, node))

C15_Witness ==
  /\ call.op = "findClusters"
  /\ ~call.args[2]
  /\ call.args[1] >= 3
  /\ Len(ret.entries) = 5
  /\ Cardinality(Range(MapValues(ret.entries))) >= 2


\* What C20 says of a returned result: the loop stopped at a round without
\* a change or at the last round, and every node id has a label among the
\* initial labels 0..N-1.
ClustersReturned ==
  call.op = "findClusters" =>
    /\ call.args[1] <= maxIterations
    /\ (~call.args[2] \/ call.args[1] = maxIterations)
    /\ MapKeys(ret.entries) = MapKeys(nodes)
    /\ \A i \in 1..Len(ret.entries) :
         ret.entries[i].value \in 0..(Len(nodes) - 1)

\* A round begins only after the call or after a round that changed a
\* label.
RoundOnlyAfterChange ==
  calls'.iterations > calls.iterations => calls.changed

\* C20: findClusters returns, whatever the visiting orders, after at most
\* 100 rounds and after the first round that changed no label, with a
\* label among 0..N-1 for every node id.
C20_FindClustersTerminates ==
  /\ [](calls.iterations <= maxIterations /\ ClustersReturned)
  /\ [][RoundOnlyAfterChange]_calls
  /\ (calls.pc # "idle" ~> calls.pc = "idle")

C20_Witness ==
  /\ call.op = "findClusters"
  /\ call.args[1] = 4
  /\ ~call.args[2]
  /\ Len(ret.entries) = 5
  /\ \A i \in 1..Len(ret.entries) : ret.entries[i].value = 1


(***************************************************************************)
(* Further properties of the Consistency Checker.                          *)
(***************************************************************************)
\* The case-folded text holds the word as a substring.
Contains(text, word) ==
  \E offset \in 0..(Len(text) - Len(word)) :
    \A k \in 1..Len(word) : charToLowerCase(text[offset + k]) = word[k]

\* One of the two texts holds one word of the antonym pair p and the other
\* text holds the other word.
Antonyms(a, b, p) ==
  \/ (Contains(a, contradictions[p][1]) /\ Contains(b, contradictions[p][2]))
  \/ (Contains(a, contradictions[p][2]) /\ Contains(b, contradictions[p][1]))

\* The positions of the issues of medium severity on the texts a and b
\* that cite the antonym pair p.
MediumIssues(issues, a, b, p) ==
  {k \in 1..Len(issues) :
     /\ issues[k].type = "contradiction"
     /\ issues[k].severity = "medium"
     /\ issues[k].concept1 = a
     /\ issues[k].concept2 = b
     /\ issues[k].reason = <<"contradictory terms", contradictions[p][1],
                             contradictions[p][2]>>}

\* The pairs of positions of the concept list that hold the texts a and b.
ConceptPairs(a, b) ==
  LET allConcepts == <<mindMap.centralIdea>>
                       \o Flatten([i \in 1..Len(mindMap.branches) |->
                                     <<mindMap.branches[i].title>>
                                       \o mindMap.branches[i].subBranches])
  IN {pair \in (1..Len(allConcepts)) \X (1..Len(allConcepts)) :
        /\ pair[1] < pair[2]
        /\ allConcepts[pair[1]] = a
        /\ allConcepts[pair[2]] = b}

\* C16: detectContradictions emits one issue of medium severity, citing
\* the antonym pair, for each pair of concepts and each antonym pair of
\* the table of which one concept holds one word and the other concept the
\* other word, and no other issue of medium severity.
C16_AntonymPairsFlagged ==
  call.op = "detectContradictions" =>
    LET texts == Range(getAllConcepts(mindMap))
    IN /\ \A a \in texts, b \in texts, p \in 1..Len(contradictions) :
            Cardinality(MediumIssues(ret, a, b, p))
              = IF Antonyms(a, b, p) THEN Cardinality(ConceptPairs(a, b))
                ELSE 0
       /\ \A k \in 1..Len(ret) :
            ret[k].severity = "medium" =>
              \E a \in texts, b \in texts, p \in 1..Len(contradictions) :
                k \in MediumIssues(ret, a, b, p)

C16_Witness ==
  /\ call.op = "detectContradictions"
  /\ Len(mindMap.branches) = 2
  /\ mindMap.branches[1].title = <<"i", "n", "c", "r", "e", "a", "s", "e", " ", "r", "e", "v", "e", "n", "u", "e">>
  /\ mindMap.branches[2].title = <<"d", "e", "c", "r", "e", "a", "s", "e", " ", "c", "o", "s", "t", "s">>
  /\ Len(ret) = 1
  /\ ret[1].severity = "medium"
  /\ ret[1].reason = <<"contradictory terms", contradictions[1][1],
                       contradictions[1][2]>>


\* The number of words of a text: the runs of characters other than the
\* space.
WordCount(text) ==
  Cardinality({i \in 1..Len(text) :
                 text[i] # " " /\ (i = 1 \/ text[i - 1] = " ")})

HierarchyIssue(parent, child, reason) ==
  [type |-> "hierarchy", severity |-> "low", parent |-> parent,
   child |-> child, reason |-> <<reason>>]

\* The sub-branches, as pairs of positions, of the texts parent and child.
SubBranchesOf(parent, child) ==
  {pos \in UNION {{b} \X (1..Len(mindMap.branches[b].subBranches)) :
                    b \in 1..Len(mindMap.branches)} :
     /\ mindMap.branches[pos[1]].title = parent
     /\ mindMap.branches[pos[1]].subBranches[pos[2]] = child}

\* C17: validateHierarchy emits, for each sub-branch, a low hierarchy issue
\* if its text holds the title of its branch (whatever the case) and one
\* more if it has fewer than 2 words, and no other issue.
C17_HierarchyIssues ==
  call.op = "validateHierarchy" =>
    LET titles == {mindMap.branches[b].title : b \in 1..Len(mindMap.branches)}
        subs == UNION {Range(mindMap.branches[b].subBranches) :
                         b \in 1..Len(mindMap.branches)}
        Issued(issue) == Cardinality({k \in 1..Len(ret) : ret[k] = issue})
    IN /\ \A parent \in titles, child \in subs :
            /\ Issued(HierarchyIssue(parent, child, "redundant with parent"))
                 = IF Contains(child, toLowerCase(parent))
                   THEN Cardinality(SubBranchesOf(parent, child)) ELSE 0
            /\ Issued(HierarchyIssue(parent, child, "very brief"))
                 = IF WordCount(child) < 2
                   THEN Cardinality(SubBranchesOf(parent, child)) ELSE 0
       /\ \A k \in 1..Len(ret) :
            \E parent \in titles, child \in subs :
              \/ ret[k] = HierarchyIssue(parent, child, "redundant with parent")
              \/ ret[k] = HierarchyIssue(parent, child, "very brief")


(***************************************************************************)
(* The shape of the Concept Graph.                                         *)
(***************************************************************************)
\* The edge joins the central node to a branch, or a branch to one of its
\* own sub-branches.
TreeEdge(edge) ==
  \/ /\ edge.from = "central"
     /\ \E i \in 0..(BranchCount - 1) : edge.to = "branch-" \o ToString(i)
  \/ \E i \in 0..(BranchCount - 1) :
       /\ edge.from = "branch-" \o ToString(i)
       /\ \E j \in 0..(Len(mindMap.branches[i + 1].subBranches) - 1) :
            edge.to = "branch-" \o ToString(i) \o "-sub-" \o ToString(j)

Neighbours(id) == Range(MapGet(adjacencyList, id))

Joined(a, b) ==
  \E k \in 1..Len(edges) :
    \/ (edges[k].from = a /\ edges[k].to = b)
    \/ (edges[k].from = b /\ edges[k].to = a)

\* The node ids reached from the ids of S along the adjacency sets.
RECURSIVE ReachedFrom(_)
ReachedFrom(S) ==
  LET next == S \cup UNION {Neighbours(id) : id \in S}
  IN IF next = S THEN S ELSE ReachedFrom(next)

\* C18: the graph is a tree under the central node: every edge joins the
\* central node to a branch or a branch to one of its own sub-branches, the
\* adjacency sets are symmetric and hold the edges, every node is reached
\* from every other, and findShortestPath finds a path between any two
\* existing ids.
C18_TwoLevelTree ==
  /\ \A k \in 1..Len(edges) : TreeEdge(edges[k])
  /\ Len(edges) = Len(nodes) - 1
  /\ MapKeys(adjacencyList) = MapKeys(nodes)
  /\ \A a \in NodeIds, b \in NodeIds :
       /\ (b \in Neighbours(a)) = (a \in Neighbours(b))
       /\ (b \in Neighbours(a)) = Joined(a, b)
       /\ b \in ReachedFrom({a})
  /\ (call.op = "findShortestPath" /\ Present(call.args[1])
        /\ Present(call.args[2]))
       => ret # Null

C18_Witness ==
  /\ call.op = "findShortestPath"
  /\ call.args = <<"branch-0-sub-1", "branch-1-sub-0">>
  /\ ret # Null
  /\ Len(edges) = 6

\* The number of edges of a shortest path from the ids of S to b, the ids of
\* seen being nearer; -1 when there is none.
RECURSIVE DistFrom(_, _, _, _)
DistFrom(S, seen, b, d) ==
  IF b \in S THEN d
  ELSE IF S = {} THEN -1
  ELSE DistFrom((UNION {Neighbours(x) : x \in S}) \ (seen \cup S),
                seen \cup S, b, d + 1)

Dist(a, b) == DistFrom({a}, {}, b, 0)

\* The number of shortest paths from a to b, summed over the ids of S that
\* come last before b on such a path.
RECURSIVE SigmaOver(_, _, _)
SigmaOver(a, b, S) ==
  IF a = b THEN 1
  ELSE IF S = {} THEN 0
  ELSE LET n == CHOOSE x \in S : TRUE
       IN (IF Dist(a, n) = Dist(a, b) - 1
           THEN SigmaOver(a, n, Neighbours(n)) ELSE 0)
          + SigmaOver(a, b, S \ {n})

Sigma(a, b) == SigmaOver(a, b, Neighbours(b))

\* The shortest paths from a to b of which v is an interior node.
SigmaThrough(a, v, b) ==
  IF v \notin {a, b} /\ Dist(a, v) + Dist(v, b) = Dist(a, b)
  THEN Sigma(a, v) * Sigma(v, b) ELSE 0

\* The node ids reached from the ids of S without passing through v.
RECURSIVE ReachedAvoiding(_, _)
ReachedAvoiding(v, S) ==
  LET next == (S \cup UNION {Neighbours(id) : id \in S}) \ {v}
  IN IF next = S THEN S ELSE ReachedAvoiding(v, next)

UnorderedPairs == {pair \in SUBSET NodeIds : Cardinality(pair) = 2}

\* The pairs of other nodes that removing v separates.
SeparatedBy(v) ==
  {pair \in UnorderedPairs :
     /\ v \notin pair
     /\ \E a \in pair : (pair \ {a}) \cap ReachedAvoiding(v, {a}) = {}}

\* The pairs of nodes joined by a shortest path of which v is an interior
\* node.
PassingThrough(v) ==
  {pair \in UnorderedPairs :
     \E a \in pair : \E b \in pair \ {a} : SigmaThrough(a, v, b) > 0}

SubBranchIds ==
  {"branch-" \o ToString(i) \o "-sub-" \o ToString(j) :
     i \in 0..(MaxBranches - 1), j \in 0..(MaxSubs - 1)}

\* C19: calculateBetweennessCentrality has one entry for every node; any two
\* nodes are joined by exactly one shortest path, which the depth bound of 8
\* does not cut off, so that the score of v, the sum over the unordered
\* pairs of the share of their shortest paths of which v is an interior
\* node, is the number of pairs of other nodes whose path passes through v,
\* which are the pairs that removing v separates; every sub-branch node
\* scores 0.
C19_BetweennessCountsPairs ==
  call.op = "calculateBetweennessCentrality" =>
    /\ MapKeys(ret) = MapKeys(nodes)
    /\ \A pair \in UnorderedPairs : \A a \in pair : \A b \in pair \ {a} :
         /\ Sigma(a, b) = 1
         /\ Dist(a, b) <= 8
         /\ findAllPaths(G, a, b, 8) = findAllPaths(G, a, b, Len(nodes))
    /\ \A v \in NodeIds :
         /\ MapGet(ret, v) = Num(Cardinality(PassingThrough(v)))
         /\ PassingThrough(v) = SeparatedBy(v)
         /\ v \in SubBranchIds => MapGet(ret, v) = Num(0)

C19_Witness ==
  /\ call.op = "calculateBetweennessCentrality"
  /\ Len(edges) = 6
  /\ MapGet(ret, "central") = Num(9)
  /\ MapGet(ret, "branch-0") = Num(9)
  /\ MapGet(ret, "branch-0-sub-1") = Num(0)

(***************************************************************************)
(* Convergence of the label propagation.                                   *)
(***************************************************************************)
\* A round has ended without any change of label.
RoundWithoutChange == calls.pc = "while" /\ ~calls.changed

\* C21: whatever the visiting orders, a run of findClusters reaches a round
\* in which no label changes: the loop never comes to its last round, and
\* findClusters never returns with `changed' still true.
C21_PropagationConverges ==
  /\ [](calls.iterations < maxIterations)
  /\ [](call.op = "findClusters" => ~call.args[2])
  /\ (calls.pc = "for" ~> RoundWithoutChange)

C21_Witness ==
  /\ call.op = "findClusters"
  /\ call.args = <<3, FALSE>>
  /\ Len(ret.entries) = 5
  /\ Cardinality(Range(MapValues(ret.entries))) = 2

(***************************************************************************)
(* The gaps of checkCompleteness.                                          *)
(***************************************************************************)
SizeOf(idx) == Len(mindMap.branches[idx].subBranches)

SizeSum == SumSeq([i \in 1..BranchCount |-> SizeOf(i)], BranchCount)

\* BranchCount * BranchCount times the variance of the sizes.
ScaledVariance ==
  BranchCount * SumSeq([i \in 1..BranchCount |-> SizeOf(i) * SizeOf(i)],
                       BranchCount)
  - SizeSum * SizeSum

\* size < mean - stddev and size > mean + 2 * stddev, on the squares.
BelowMeanByStdDev(idx) ==
  LET d == SizeSum - BranchCount * SizeOf(idx)
  IN d > 0 /\ d * d > ScaledVariance

AboveMeanByTwoStdDev(idx) ==
  LET d == BranchCount * SizeOf(idx) - SizeSum
  IN d > 0 /\ d * d > 4 * ScaledVariance

\* The severities of the gaps of one branch, in the order of the tests.
GapsOf(idx) ==
  (IF BelowMeanByStdDev(idx) /\ SizeOf(idx) < 3 THEN <<"medium">> ELSE <<>>)
  \o (IF SizeOf(idx) = 0 THEN <<"high">> ELSE <<>>)
  \o (IF AboveMeanByTwoStdDev(idx) /\ SizeOf(idx) > 8 THEN <<"low">>
      ELSE <<>>)

\* C22: checkCompleteness returns, branch after branch, a medium gap iff
\* the size of the branch is below mean - stddev and below 3, a high gap
\* iff the size is 0, a low gap iff the size is above mean + 2 * stddev and
\* above 8, each test on its own, and nothing else.
C22_CompletenessGaps ==
  call.op = "checkCompleteness" =>
    /\ [i \in 1..Len(ret) |-> ret[i].severity]
         = Flatten([idx \in 1..BranchCount |-> GapsOf(idx)])
    /\ \A i \in 1..Len(ret) : ret[i].type = "gap"

C22_LowGapReturned ==
  /\ call.op = "checkCompleteness"
  /\ BranchCount = 6
  /\ [i \in 1..Len(ret) |-> ret[i].severity]
       = <<"low", "high", "high", "high", "high", "high">>

C22_Witness ==
  /\ call.op = "checkCompleteness"
  /\ BranchCount = 3
  /\ [i \in 1..Len(ret) |-> ret[i].severity] = <<"medium", "high">>

(***************************************************************************)
(* The suggestions of suggestNewConnections.                               *)
(***************************************************************************)
\* The first node of the graph that carries the label, if there is one.
Resolves(concept) == \E i \in 1..Len(nodes) : nodes[i].value.label = concept

Resolved(concept) ==
  nodes[CHOOSE i \in 1..Len(nodes) :
          /\ nodes[i].value.label = concept
          /\ \A h \in 1..(i - 1) : nodes[h].value.label # concept].value

\* A node belongs to a branch when it is a branch or a sub-branch.
InBranch(node) == node.type \in {"branch", "subbranch"}

\* The two concepts of a similarity resolve to nodes of different branches.
AcrossBranches(sim) ==
  /\ Resolves(sim.concept1) /\ Resolves(sim.concept2)
  /\ InBranch(Resolved(sim.concept1)) /\ InBranch(Resolved(sim.concept2))
  /\ Resolved(sim.concept1).branchIndex # Resolved(sim.concept2).branchIndex

Examined == SubSeq(call.args[1], 1, IF Len(call.args[1]) < 10
                                    THEN Len(call.args[1]) ELSE 10)

\* C23: suggestNewConnections returns, for the first 10 similarities and in
\* their order, one suggestion for every similarity whose two concepts
\* resolve to nodes that belong to different branches, with the similarity
\* as its confidence: at most 10 suggestions of descending confidence, none
\* of which pairs a branch with one of its own sub-branches.
C23_SuggestionsAcrossBranches ==
  call.op = "suggestNewConnections" =>
    /\ ret = [i \in 1..Len(SelectSeq(Examined, AcrossBranches)) |->
                [from |-> SelectSeq(Examined, AcrossBranches)[i].concept1,
                 to |-> SelectSeq(Examined, AcrossBranches)[i].concept2,
                 confidence |->
                   SelectSeq(Examined, AcrossBranches)[i].similarity]]
    /\ Len(ret) <= 10
    /\ \A i \in 1..(Len(ret) - 1) :
         ~SimLt(ret[i].confidence, ret[i + 1].confidence)
    /\ \A i \in 1..Len(ret) :
         Resolved(ret[i].from).branchIndex # Resolved(ret[i].to).branchIndex

(***************************************************************************)
(* The negations of detectContradictions.                                  *)
(***************************************************************************)
\* The case-folded text a is the marker "not " followed by the case-folded
\* text b.
NegationOf(a, b) ==
  /\ Len(a) = Len(NotMarker) + Len(b)
  /\ \A k \in 1..Len(NotMarker) : charToLowerCase(a[k]) = NotMarker[k]
  /\ \A k \in 1..Len(b) :
       charToLowerCase(a[Len(NotMarker) + k]) = charToLowerCase(b[k])

\* The positions of the issues of high severity on the texts a and b.
HighIssues(issues, a, b) ==
  {k \in 1..Len(issues) :
     /\ issues[k].type = "contradiction"
     /\ issues[k].severity = "high"
     /\ issues[k].concept1 = a
     /\ issues[k].concept2 = b}

\* C24: detectContradictions emits one issue of high severity for each
\* pair of concepts of which one is, case folded, the marker "not "
\* followed by the other, and no other issue of high severity; two
\* concepts of the same text are not flagged.
C24_DirectNegationsFlagged ==
  call.op = "detectContradictions" =>
    LET texts == Range(getAllConcepts(mindMap))
    IN /\ \A a \in texts, b \in texts :
            Cardinality(HighIssues(ret, a, b))
              = IF NegationOf(a, b) \/ NegationOf(b, a)
                THEN Cardinality(ConceptPairs(a, b)) ELSE 0
       /\ \A k \in 1..Len(ret) :
            ret[k].severity = "high" => ret[k].concept1 # ret[k].concept2

\* The same, for the maps in which no text occurs twice.
C24_DistinctTexts ==
  (call.op = "detectContradictions"
     /\ \A a \in Range(getAllConcepts(mindMap)) :
          Cardinality(ConceptPairs(a, a)) = 0)
    => C24_DirectNegationsFlagged

(***************************************************************************)
(* The redundancies of findRedundancies.                                   *)
(***************************************************************************)
\* The pieces of a text between its runs of white space, as pairs of a
\* first and a last position.  A text that begins or ends with white
\* space, and the empty text, have an empty piece.
Pieces(text) ==
  {p \in (1..(Len(text) + 1)) \X (0..Len(text)) :
     /\ p[1] <= p[2] + 1
     /\ p[1] = 1 \/ text[p[1] - 1] \in WhiteSpace
     /\ p[2] = Len(text) \/ text[p[2] + 1] \in WhiteSpace
     /\ \A k \in p[1]..p[2] : text[k] \notin WhiteSpace
     /\ p[1] = p[2] + 1 => (p[1] = 1 \/ p[2] = Len(text))}

\* The words of a text, in lower case.
WordsOf(text) ==
  {[k \in 1..(p[2] - p[1] + 1) |-> charToLowerCase(text[p[1] + k - 1])] :
     p \in Pieces(text)}

\* The Jaccard similarity of the word sets of a and b is above n / d.
JaccardAbove(a, b, n, d) ==
  Cardinality(WordsOf(a) \cap WordsOf(b)) * d
    > n * Cardinality(WordsOf(a) \cup WordsOf(b))

\* The positions of the issues on the texts a and b of a severity.
RedundancyIssues(issues, a, b, severity) ==
  {k \in 1..Len(issues) :
     /\ issues[k].type = "redundancy"
     /\ issues[k].severity = severity
     /\ issues[k].concepts = <<a, b>>}

\* C30: findRedundancies emits one issue for each pair of concepts whose
\* word sets have a Jaccard similarity above 0.7, of high severity when
\* the similarity is above 0.9 and of medium severity otherwise, and no
\* other issue; two concepts of the same text are flagged high.
C30_RedundanciesFlagged ==
  call.op = "findRedundancies" =>
    LET texts == Range(getAllConcepts(mindMap))
    IN /\ \A a \in texts, b \in texts :
            /\ Cardinality(RedundancyIssues(ret, a, b, "high"))
                 = IF JaccardAbove(a, b, 9, 10)
                   THEN Cardinality(ConceptPairs(a, b)) ELSE 0
            /\ Cardinality(RedundancyIssues(ret, a, b, "medium"))
                 = IF JaccardAbove(a, b, 7, 10) /\ ~JaccardAbove(a, b, 9, 10)
                   THEN Cardinality(ConceptPairs(a, b)) ELSE 0
       /\ \A k \in 1..Len(ret) :
            \E a \in texts, b \in texts :
              k \in RedundancyIssues(ret, a, b, "high")
                      \cup RedundancyIssues(ret, a, b, "medium")
       /\ \A a \in texts :
            Cardinality(RedundancyIssues(ret, a, a, "high"))
              = Cardinality(ConceptPairs(a, a))

\* The three words and the four words are flagged medium, the three words
\* with their copy in another case high, and the four words with it medium.
C30_Witness ==
  /\ call.op = "findRedundancies"
  /\ getAllConcepts(mindMap) = <<<<"a", " ", "b", " ", "c">>, <<"a", " ", "b", " ", "c", " ", "d">>, <<"A", " ", " ", "c", " ", "b">>>>
  /\ [k \in 1..Len(ret) |-> ret[k].severity] = <<"medium", "high", "medium">>

(***************************************************************************)
(* Properties of MindMapStorage.                                           *)
(***************************************************************************)
\* The stored list.
Stored(storage) ==
  IF MapHas(storage, STORAGE_KEY)
  THEN JSONparse(MapGet(storage, STORAGE_KEY)).value ELSE <<>>

IdsOf(items) == {idOf(items[i]) : i \in 1..Len(items)}

\* The elements of items at the places of the set, in their order.
Chosen(items, places) ==
  [k \in 1..Cardinality(places) |->
     items[CHOOSE i \in places :
             Cardinality({j \in places : j <= i}) = k]]

\* A call of importFromJSON on the text of an array of records, whose
\* write is accepted, has returned.
ImportReturns ==
  /\ call = NoCall
  /\ call'.op = "importFromJSON"
  /\ ~call'.args[2]
  /\ JSONparse(call'.args[1]) # SyntaxError
  /\ JSONparse(call'.args[1]).type = "array"

\* C25: importFromJSON of the text of an array of records appends to the
\* stored list, in their order, the imported records whose id no stored
\* record has, returns their number and leaves the stored records and their
\* order as they were; the import of the text that exportAsJSON returns
\* for the store adds no record.
C25_ImportAddsTheUnknown ==
  [][ImportReturns =>
       LET imported == JSONparse(call'.args[1]).value
           known == IdsOf(Stored(localStorage))
           unknown == {i \in 1..Len(imported) : idOf(imported[i]) \notin known}
       IN /\ Stored(localStorage')
               = Stored(localStorage) \o Chosen(imported, unknown)
          /\ ret' = [completion |-> "return",
                     value |-> JsNumberOf(Cardinality(unknown))]
          /\ call'.args[1] = exportAsJSON(localStorage) =>
               /\ ret'.value = JsNumberOf(0)
               /\ Stored(localStorage') = Stored(localStorage)]_vars

\* One of two imported records has been added after the stored one.
C25_Witness ==
  /\ call.op = "importFromJSON"
  /\ ret.completion = "return"
  /\ ret.value = JsNumberOf(1)
  /\ Len(JSONparse(call.args[1]).value) = 2
  /\ Len(Stored(localStorage)) = 2
  /\ idOf(Stored(localStorage)[1]) = JsString(generateId(1, <<"a">>))
  /\ idOf(Stored(localStorage)[2]) = JsString(<<"k">>)

\* The store of two records has been exported and imported.
C25_ExportImported ==
  /\ call.op = "importFromJSON"
  /\ call.args[1] = exportAsJSON(localStorage)
  /\ ret.value = JsNumberOf(0)
  /\ Len(Stored(localStorage)) = 2

Property(item, key) ==
  IF MapHas(item.value, key) THEN MapGet(item.value, key) ELSE JsUndefined

UpdatedKeys == {"mindMap", "userInput", "updatedAt"}

\* C26: delete with an id that no stored record has returns false, update
\* with such an id returns null, importFromJSON of a text that does not
\* parse or is not the text of an array throws, and each leaves the
\* storage as it was; an update that finds its record sets mindMap,
\* userInput and updatedAt of the first record of the id and leaves its
\* other properties, its position and the other records as they were.
C26_MissesChangeNothing ==
  [][call = NoCall =>
       LET before == Stored(localStorage)
           after == Stored(localStorage')
           id == JsString(call'.args[1])
           found == {i \in 1..Len(before) : idOf(before[i]) = id}
           first == CHOOSE i \in found : \A k \in found : i <= k
       IN /\ (call'.op = "delete" /\ found = {}) =>
               /\ ret' = [completion |-> "return", value |-> JsBoolean(FALSE)]
               /\ localStorage' = localStorage
          /\ (call'.op = "update" /\ found = {}) =>
               /\ ret' = [completion |-> "return", value |-> JsNull]
               /\ localStorage' = localStorage
          /\ (call'.op = "importFromJSON"
                /\ (\/ JSONparse(call'.args[1]) = SyntaxError
                    \/ JSONparse(call'.args[1]).type # "array")) =>
               /\ ret'.completion = "throw"
               /\ localStorage' = localStorage
          /\ (call'.op = "update" /\ found # {} /\ ~call'.args[5]) =>
               /\ ret' = [completion |-> "return", value |-> after[first]]
               /\ Len(after) = Len(before)
               /\ \A i \in 1..Len(before) : i # first => after[i] = before[i]
               /\ Property(after[first], "mindMap") = call'.args[2]
               /\ Property(after[first], "userInput") = JsString(call'.args[3])
               /\ Property(after[first], "updatedAt") = JsString(call'.args[4])
               /\ \A key \in {"id", "createdAt"} :
                    Property(after[first], key) = Property(before[first], key)
               /\ \A p \in 1..Len(before[first].value) :
                    after[first].value[p].key = before[first].value[p].key]_vars

\* The second of two stored records has been updated at a later time than
\* it was created.
C26_Witness ==
  /\ call.op = "update"
  /\ ret.completion = "return"
  /\ ret.value # JsNull
  /\ Len(Stored(localStorage)) = 2
  /\ Stored(localStorage)[2] = ret.value
  /\ Property(ret.value, "createdAt") # Property(ret.value, "updatedAt")

\* A call of delete, of update and of importFromJSON have missed.
C26_DeleteMissed ==
  call.op = "delete" /\ ret.value = JsBoolean(FALSE) /\ Len(Stored(localStorage)) = 2

C26_UpdateMissed ==
  call.op = "update" /\ ret.value = JsNull /\ Len(Stored(localStorage)) = 2

C26_ImportRejected ==
  call.op = "importFromJSON" /\ ret.completion = "throw" /\ ~call.args[2] /\ Len(Stored(localStorage)) = 2

NoTwoOfOneId(items) ==
  \A i \in 1..Len(items), j \in 1..Len(items) :
    idOf(items[i]) = idOf(items[j]) => i = j

\* The id that a call of save draws is the id of no stored record.
SaveDrawsFreshId ==
  call'.op = "save" => JsString(call'.args[3]) \notin IdsOf(Stored(localStorage))

\* C27: as long as save draws fresh ids, no call of save, update, delete,
\* deleteAll or importFromJSON leaves two stored records of one id.
C27_IdsAreUnique ==
  [][(NoTwoOfOneId(Stored(localStorage)) /\ SaveDrawsFreshId)
       => NoTwoOfOneId(Stored(localStorage'))]_vars

\* The same, for the calls other than importFromJSON.
C27_UniqueButForImport ==
  [][(NoTwoOfOneId(Stored(localStorage)) /\ SaveDrawsFreshId
        /\ call'.op # "importFromJSON")
       => NoTwoOfOneId(Stored(localStorage'))]_vars

(***************************************************************************)
(* Properties of the InsightsPanel.                                        *)
(***************************************************************************)
\* C28: the run of analyzeMap that the check of "Use AI for semantic
\* analysis" starts calls analyze with useAI = true.
C28_CheckedBoxAnalyzesWithAI ==
  \A k \in 1..Len(calls) : calls[k].trigger = "onChange" => calls[k].useAI

\* What a run shows when its promise is fulfilled.
ClustersOf(run) == slice(<<identifyClusters(buildGraph(run.mindMap))>>, 5)

SuggestionsOf(run) ==
  LET results == {analyze(run.mindMap, buildGraph(run.mindMap), run.useAI, r) :
                    r \in PanelResponses(Len(getAllConcepts(run.mindMap)))}
  IN {slice(result.suggestedConnections, 10) :
        result \in {r \in results : r.state = "fulfilled"}}

LastRunIsShown ==
  LET last == calls[Len(calls)]
  IN /\ last.state = "pending" => isAnalyzing
     /\ (\A k \in 1..Len(calls) : calls[k].state = "fulfilled")
          => /\ clusters = ClustersOf(last)
             /\ suggestions \in SuggestionsOf(last)

\* C29: when a run of analyzeMap has started while an earlier one awaited
\* analyze, isAnalyzing is true as long as the run started last has not
\* settled, and once all runs have settled, with results, the clusters and
\* the suggestions shown are those of the run started last.
C29_LastRunIsShown ==
  (\E k \in 1..Len(calls) : calls[k].overlaps) => LastRunIsShown

\* The same, when every run has started after the runs before it settled.
C29_RunsInTurn ==
  (Len(calls) > 0 /\ \A k \in 1..Len(calls) : ~calls[k].overlaps)
    => LastRunIsShown

====
